---------------------------- MODULE Spec2Model ----------------------------
(***************************************************************************)
(* Model of the caddie backend of justslee/scorecard.                      *)
(*                                                                         *)
(* Part 1: the round session store (app/caddie/session.py) and the request *)
(* handlers of app/routes/caddie.py that use it.  Handlers run as threads; *)
(* every SessionManager method holds self._lock for its critical section.  *)
(* Session objects live in a heap and are shared by reference: the map     *)
(* holds references, and so do the handlers' local variables.              *)
(*                                                                         *)
(* Part 2: the distance adjustments of app/caddie/club_selection.py and    *)
(* app/services/weather.py, as operators applied to arguments drawn from   *)
(* bounded sets.                                                           *)
(***************************************************************************)
EXTENDS Integers, Sequences, FiniteSets, TLC

\* ---------------------------------------------------------------- constants

SESSION_TTL_SECONDS == 8 * 60 * 60

WEATHER_REFRESH_SECONDS == 30 * 60

\* ------------------------------------------------------------------- bounds

\* Number of clock advances in a behaviour.
MaxTicks == 2

\* Number of requests the handlers take in a behaviour.
MaxRequests == 3

\* Reading of time.time() at the first state (seconds).
Epoch == 100000

\* Amounts by which the clock advances between two steps when sessions age
\* towards the TTL: 1 minute, 7 hours 59 minutes.
TickSteps == {60, 28740}

\* ... and when cached weather ages towards its refresh: 1 minute, 30 minutes.
WeatherTickSteps == {60, 1800}

Threads == {"t1", "t2"}

RoundIds == {"r1", "r2"}

CourseIds == {"c1"}

None == "None"

\* References to the RoundSession objects: each is constructed by a request.
ObjIds == 1 .. MaxRequests

\* The reference that refers to no RoundSession (Python's None where a
\* RoundSession is expected).
NoSession == 0

\* ------------------------------------------------------------------- state

VARIABLES
    clock,      \* time.time()
    sessions,   \* SessionManager._sessions: round id -> object reference
    lock,       \* SessionManager._lock: the thread holding it, or None
    heap,       \* the RoundSession objects constructed so far
    nalloc,     \* how many objects have been constructed
    ticks,      \* how many times the clock has advanced
    requests,   \* how many requests have been taken
    pc,         \* each handler thread's position
    op,         \* each handler thread's request
    now,        \* local `now` of get_or_create / cleanup_expired
    session,    \* local `session` of the handler
    resp,       \* the last response each thread produced
    call,       \* a call of one of the pure functions: its arguments
    result      \* what the call returned, once it has

vars == <<clock, sessions, lock, heap, nalloc, ticks, requests, pc, op, now, session, resp, call, result>>

\* The variables of the session store and its handlers.
storeVars == <<clock, sessions, lock, heap, nalloc, ticks, requests, pc, op, now, session, resp>>

\* RoundSession(round_id=..., course_id=..., created_at=..., last_accessed=...)
\* with the other fields at their defaults.
RoundSession(round_id, course_id, created_at, last_accessed) ==
    [ round_id |-> round_id,
      course_id |-> course_id,
      created_at |-> created_at,
      last_accessed |-> last_accessed,
      weather |-> None,
      weather_fetched_at |-> 0,
      hole_intel |-> None ]

\* A heap slot no object has been constructed in.
Unallocated == RoundSession(None, None, 0, 0)

NoOp == [kind |-> "none", round_id |-> None, course_id |-> None]

\* No pure function is being called.
NoCall == [fn |-> "none"]

NoResult == [fn |-> "none"]

\* The store as SessionManager.__init__ leaves it, the handlers idle.
InitStore ==
    /\ clock = Epoch
    /\ sessions = [r \in RoundIds |-> NoSession]
    /\ lock = None
    /\ heap = [o \in ObjIds |-> Unallocated]
    /\ nalloc = 0
    /\ ticks = 0
    /\ requests = 0
    /\ pc = [t \in Threads |-> "idle"]
    /\ op = [t \in Threads |-> NoOp]
    /\ now = [t \in Threads |-> 0]
    /\ session = [t \in Threads |-> NoSession]
    /\ resp = [t \in Threads |-> "none"]

Init ==
    /\ InitStore
    /\ call = NoCall
    /\ result = NoResult

\* ------------------------------------------------------- faulty variants
\* Each is an operator of the model with one fault put in; a property below
\* that holds of the model fails when the variant takes the operator's place.

\* get with a time-to-live of 9 hours.
GetExpiredNineHours(time, s) == time - s.last_accessed > 9 * 60 * 60

\* A sweep that ages sessions by their creation time.
SweepExpiredByCreation(snapshot, s) ==
    snapshot - s.created_at > SESSION_TTL_SECONDS

\* get_or_create that restamps the session it found.
GocRefreshRestamps(s, snapshot) ==
    [s EXCEPT !.last_accessed = snapshot, !.created_at = snapshot]

\* A weather endpoint that caches the weather without its fetch time.
CacheWeatherUnstamped(s, time) == [s EXCEPT !.weather = "weather"]

\* ------------------------------------------------------- SessionManager

\* session.py line 99: time.time() - session.last_accessed > SESSION_TTL_SECONDS
GetExpired(time, s) == time - s.last_accessed > SESSION_TTL_SECONDS

\* session.py line 122: now - s.last_accessed > SESSION_TTL_SECONDS
SweepExpired(snapshot, s) == snapshot - s.last_accessed > SESSION_TTL_SECONDS

\* session.py lines 132-136
needs_weather_refresh(time, s) ==
    IF s.weather = None
    THEN TRUE
    ELSE time - s.weather_fetched_at > WEATHER_REFRESH_SECONDS

\* get_or_create on a session it found (line 90): last_accessed becomes the
\* `now` it read before it took the lock.
GocRefresh(s, snapshot) == [s EXCEPT !.last_accessed = snapshot]

\* get (line 102) and update (line 108): last_accessed = time.time().
Touch(s, time) == [s EXCEPT !.last_accessed = time]

\* get_weather, lines 309-310 of routes/caddie.py.
CacheWeather(s, time) ==
    [s EXCEPT !.weather = "weather", !.weather_fetched_at = time]

\* get_course_intel, lines 360-362 of routes/caddie.py.
CacheIntel(s, time) ==
    [s EXCEPT !.weather = "weather", !.weather_fetched_at = time,
              !.hole_intel = "intel"]

\* The map after get_or_create's insertion (line 88).
GocInsert(map, r, o) == [map EXCEPT ![r] = o]

\* The map after get's eviction (line 100).
GetEvict(map, r) == [map EXCEPT ![r] = NoSession]

\* The map after update's write-back (line 109).
UpdateStore(map, o) == [map EXCEPT ![heap[o].round_id] = o]

\* The map after end's pop (line 114).
EndPop(map, r) == [map EXCEPT ![r] = NoSession]

\* The map after cleanup_expired's deletions (lines 120-125).
SweepMap(map, snapshot) ==
    [r \in RoundIds |->
        IF map[r] # NoSession /\ SweepExpired(snapshot, heap[map[r]])
        THEN NoSession
        ELSE map[r]]

\* The handler has its response; its locals are dead.
Respond(t, r) ==
    /\ pc' = [pc EXCEPT ![t] = "done"]
    /\ resp' = [resp EXCEPT ![t] = r]
    /\ session' = [session EXCEPT ![t] = NoSession]
    /\ now' = now

\* The response is sent and the thread returns to the pool.
Return(t) ==
    /\ pc[t] = "done"
    /\ pc' = [pc EXCEPT ![t] = "idle"]
    /\ op' = [op EXCEPT ![t] = NoOp]
    /\ resp' = [resp EXCEPT ![t] = "none"]
    /\ now' = [now EXCEPT ![t] = 0]
    /\ UNCHANGED <<clock, sessions, lock, heap, nalloc, ticks, requests, session, call, result>>

\* A thread of the pool takes a request.
Accept(t, kind, r, c) ==
    /\ pc[t] = "idle"
    /\ requests < MaxRequests
    /\ requests' = requests + 1
    /\ op' = [op EXCEPT ![t] = [kind |-> kind, round_id |-> r, course_id |-> c]]

\* get_or_create, lines 79-91, entered with `now` already read (line 78).
\* start_session goes on to update (line 79 of routes/caddie.py).
GetOrCreate(t) ==
    /\ pc[t] = "get_or_create"
    /\ lock = None
    /\ LET r == op[t].round_id IN
       IF sessions[r] = NoSession
       THEN /\ heap' = [heap EXCEPT ![nalloc + 1] =
                            RoundSession(r, op[t].course_id, now[t], now[t])]
            /\ nalloc' = nalloc + 1
            /\ sessions' = GocInsert(sessions, r, nalloc + 1)
            /\ session' = [session EXCEPT ![t] = nalloc + 1]
       ELSE /\ heap' = [heap EXCEPT ![sessions[r]] = GocRefresh(@, now[t])]
            /\ session' = [session EXCEPT ![t] = sessions[r]]
            /\ UNCHANGED <<nalloc, sessions>>
    /\ pc' = [pc EXCEPT ![t] = "update"]
    /\ UNCHANGED <<clock, lock, ticks, requests, op, now, resp, call, result>>

\* What each handler answers when get returns None.
NotFound(kind) ==
    CASE kind = "status" -> "status:not_found"
      [] kind = "shot" -> "shot:404"
      [] kind = "recommend" -> "recommend:404"
      [] kind = "voice" -> "voice:404"
      [] kind = "weather" -> "weather:ok"
      [] kind = "intel" -> "intel:ok"

\* get, lines 95-101, called first thing by the handler of a `kind` request
\* for round r: the lock is taken, the entry looked up and its age tested;
\* an expired entry is deleted.  A live entry keeps the lock for the second
\* reading of the clock (GetTouch).
Get(t, kind, r) ==
    /\ Accept(t, kind, r, None)
    /\ lock = None
    /\ IF sessions[r] = NoSession
       THEN /\ Respond(t, NotFound(kind))
            /\ UNCHANGED <<sessions, lock>>
       ELSE IF GetExpired(clock, heap[sessions[r]])
       THEN /\ sessions' = GetEvict(sessions, r)
            /\ Respond(t, NotFound(kind))
            /\ UNCHANGED lock
       ELSE /\ session' = [session EXCEPT ![t] = sessions[r]]
            /\ lock' = t
            /\ pc' = [pc EXCEPT ![t] = "get_touch"]
            /\ UNCHANGED <<sessions, resp, now>>
    /\ UNCHANGED <<clock, heap, nalloc, ticks, call, result>>

\* The handler's next step once get has returned its session.
AfterGet(kind) ==
    CASE kind = "status" -> "done"
      [] kind \in {"weather", "intel"} -> "fields"
      [] kind \in {"shot", "recommend", "voice"} -> "update"

\* get, lines 102-103: last_accessed = time.time(); return session.
GetTouch(t) ==
    /\ pc[t] = "get_touch"
    /\ lock = t
    /\ heap' = [heap EXCEPT ![session[t]] = Touch(@, clock)]
    /\ lock' = None
    /\ IF AfterGet(op[t].kind) = "done"
       THEN Respond(t, "status:active")
       ELSE /\ pc' = [pc EXCEPT ![t] = AfterGet(op[t].kind)]
            /\ UNCHANGED <<resp, session, now>>
    /\ UNCHANGED <<clock, sessions, nalloc, ticks, requests, op, call, result>>

\* What each handler answers after its update.
Updated(kind) ==
    CASE kind = "start" -> "start:active"
      [] kind = "shot" -> "shot:recorded"
      [] kind = "recommend" -> "recommend:ok"
      [] kind = "voice" -> "voice:ok"
      [] kind = "weather" -> "weather:ok"
      [] kind = "intel" -> "intel:ok"

\* update, lines 107-109.
Update(t) ==
    /\ pc[t] = "update"
    /\ lock = None
    /\ heap' = [heap EXCEPT ![session[t]] = Touch(@, clock)]
    /\ sessions' = UpdateStore(sessions, session[t])
    /\ Respond(t, Updated(op[t].kind))
    /\ UNCHANGED <<clock, lock, nalloc, ticks, requests, op, call, result>>

\* end, lines 113-114, called by end_session (routes/caddie.py 91-102).
End(t, r) ==
    /\ Accept(t, "end", r, None)
    /\ lock = None
    /\ sessions' = EndPop(sessions, r)
    /\ Respond(t, IF sessions[r] = NoSession THEN "end:not_found" ELSE "end:ended")
    /\ UNCHANGED <<clock, lock, heap, nalloc, ticks, call, result>>

\* cleanup_expired, lines 119-125, entered with `now` already read (118).
CleanupExpired(t) ==
    /\ pc[t] = "cleanup_expired"
    /\ lock = None
    /\ sessions' = SweepMap(sessions, now[t])
    /\ Respond(t, "cleanup:done")
    /\ UNCHANGED <<clock, lock, heap, nalloc, ticks, requests, op, call, result>>

\* ------------------------------------------------------------- handlers
\* app/routes/caddie.py.  A handler's writes to fields of its session happen
\* outside the lock, on the shared object.  Fields that no SessionManager
\* method and no handler's control flow reads (club_distances, handicap,
\* current_hole, last_recommendation, shot_history, conversation_history,
\* player_stats)
\* are not kept in the heap, so the handlers that write only those go from
\* get straight to update.

\* POST /session/start, lines 72-74: get_or_create reads the clock (session.py
\* line 78) and then waits for the lock.
StartSession(t, r, c) ==
    /\ Accept(t, "start", r, c)
    /\ pc' = [pc EXCEPT ![t] = "get_or_create"]
    /\ now' = [now EXCEPT ![t] = clock]
    /\ UNCHANGED <<clock, sessions, lock, heap, nalloc, ticks, session, resp, call, result>>

\* POST /session/end, lines 91-102.
EndSession(t, r) == End(t, r)

\* GET /session/{round_id}, lines 106-120.
GetSessionStatus(t, r) == Get(t, "status", r)

\* POST /session/shot, lines 124-128.
RecordShot(t, r) == Get(t, "shot", r)

\* POST /session/recommend, lines 144-148.
SessionRecommend(t, r) == Get(t, "recommend", r)

\* POST /session/voice, lines 183-191, with ANTHROPIC_API_KEY set.
SessionVoice(t, r) == Get(t, "voice", r)

\* POST /weather, lines 300-308, when build_weather_conditions succeeds and
\* a round_id is given.
GetWeather(t, r) == Get(t, "weather", r)

\* POST /course-intel, lines 319-359, with a round_id.
GetCourseIntel(t, r) == Get(t, "intel", r)

\* The periodic sweep: cleanup_expired reads the clock (line 118) and then
\* waits for the lock.
Sweep(t) ==
    /\ Accept(t, "cleanup", None, None)
    /\ pc' = [pc EXCEPT ![t] = "cleanup_expired"]
    /\ now' = [now EXCEPT ![t] = clock]
    /\ UNCHANGED <<clock, sessions, lock, heap, nalloc, ticks, session, resp, call, result>>

\* The handler's writes to modelled fields between get and update.
Fields(t) ==
    /\ pc[t] = "fields"
    /\ LET o == session[t] IN
       CASE op[t].kind = "weather" ->
              heap' = [heap EXCEPT ![o] = CacheWeather(@, clock)]
         [] op[t].kind = "intel" ->
              heap' = [heap EXCEPT ![o] = CacheIntel(@, clock)]
    /\ pc' = [pc EXCEPT ![t] = "update"]
    /\ UNCHANGED <<clock, sessions, lock, nalloc, ticks, requests, op, now, session, resp, call, result>>

\* /session/voice: the model call raises (lines 284-287); update is skipped.
VoiceFails(t) ==
    /\ pc[t] = "update"
    /\ op[t].kind = "voice"
    /\ Respond(t, "voice:500")
    /\ UNCHANGED <<clock, sessions, lock, heap, nalloc, ticks, requests, op, call, result>>

\* Time passes.
Tick(d) ==
    /\ ticks < MaxTicks
    /\ clock' = clock + d
    /\ ticks' = ticks + 1
    /\ UNCHANGED <<sessions, lock, heap, nalloc, requests, pc, op, now, session, resp, call, result>>

\* A step of handler thread t for round r.
Handler(t, r) ==
    \/ \E c \in CourseIds \cup {None} : StartSession(t, r, c)
    \/ EndSession(t, r)
    \/ GetSessionStatus(t, r)
    \/ RecordShot(t, r)
    \/ SessionRecommend(t, r)
    \/ SessionVoice(t, r)
    \/ GetWeather(t, r)
    \/ GetCourseIntel(t, r)
    \/ Sweep(t)
    \/ GetOrCreate(t)
    \/ GetTouch(t)
    \/ Fields(t)
    \/ VoiceFails(t)
    \/ Update(t)
    \/ CleanupExpired(t)
    \/ Return(t)

\* One round in play, every handler, the clock moving in steps that take a
\* session up to and past the TTL.
Next ==
    \/ \E d \in TickSteps : Tick(d)
    \/ \E t \in Threads : Handler(t, "r1")

Spec == Init /\ [][Next]_vars

\* The same, the clock moving in steps that take cached weather up to and
\* past its refresh interval.
NextWeather ==
    \/ \E d \in WeatherTickSteps : Tick(d)
    \/ \E t \in Threads : Handler(t, "r1")

SpecWeather == Init /\ [][NextWeather]_vars

\* -------------------------------------------------- distance adjustments
\* app/caddie/club_selection.py and app/services/weather.py.  Numbers are
\* integers: yards, mph, degrees F, feet of altitude, degrees of compass; an
\* elevation change is carried in half feet (3 stands for 1.5 ft), which
\* puts the ties of round(elevation_change_ft / 3) within reach.  The
\* description strings of the adjustments are left out.

Abs(x) == IF x < 0 THEN -x ELSE x

Max(a, b) == IF a >= b THEN a ELSE b

Min(a, b) == IF a <= b THEN a ELSE b

\* Python's round() of n / d, d > 0: the nearest integer, a tie to the even
\* one.
Round(n, d) ==
    LET q == n \div d
        r == n % d
    IN  IF 2 * r < d THEN q
        ELSE IF 2 * r > d THEN q + 1
        ELSE IF q % 2 = 0 THEN q ELSE q + 1

\* math.cos(math.radians(a)) for a whole number of quarter turns.  At 90 and
\* 270 degrees the float is some 1e-16 off zero, which no product with a
\* distance and a speed of the sizes used here brings to half a yard.
Cos(a) ==
    CASE a % 360 = 0 -> 1
      [] a % 360 = 180 -> -1
      [] OTHER -> 0

\* math.sin(math.radians(a)), likewise.
Sin(a) ==
    CASE a % 360 = 90 -> 1
      [] a % 360 = 270 -> -1
      [] OTHER -> 0

\* services/weather.py, compute_wind_adjustment.
compute_wind_adjustment(wind_speed_mph, wind_direction_deg, shot_bearing_deg, shot_distance_yards) ==
    IF wind_speed_mph < 2
    THEN [distance_adjustment |-> 0, lateral_adjustment |-> 0]
    ELSE LET relative_angle == wind_direction_deg - shot_bearing_deg
             headwind == wind_speed_mph * Cos(relative_angle)
             crosswind == wind_speed_mph * Sin(relative_angle)
         IN  [distance_adjustment |->
                  IF headwind > 0
                  THEN Round(shot_distance_yards * headwind, 100)
                  ELSE Round(shot_distance_yards * headwind, 200),
              lateral_adjustment |->
                  Round(crosswind * shot_distance_yards, 100)]

ShotAdjustment(type, yards) == [type |-> type, yards |-> yards]

\* The weather snapshot compute_adjustments reads.
WeatherConditions(temperature_f, wind_speed_mph, wind_direction, altitude_ft, conditions) ==
    [temperature_f |-> temperature_f,
     wind_speed_mph |-> wind_speed_mph,
     wind_direction |-> wind_direction,
     altitude_ft |-> altitude_ft,
     conditions |-> conditions]

\* weather=None.
NoWeather == [present |-> FALSE]

\* compute_adjustments keeps a list and a running total; each factor takes
\* them and hands them on.  Lines 85-86.
NoAdjustments == [adjustments |-> <<>>, total_adj |-> 0]

\* 1. Elevation, lines 88-98.
ElevationStep(acc, elevation_change_ft) ==
    IF Abs(elevation_change_ft) > 2
    THEN LET elev_adj == Round(elevation_change_ft, 6) IN
         IF elev_adj # 0
         THEN [adjustments |->
                   Append(acc.adjustments, ShotAdjustment("elevation", elev_adj)),
               total_adj |-> acc.total_adj + elev_adj]
         ELSE acc
    ELSE acc

\* A wind factor that folds the lateral estimate into the distance.
WindStepAddsLateral(acc, raw_distance, weather, shot_bearing) ==
    IF weather.wind_speed_mph >= 3
    THEN LET wind == compute_wind_adjustment(weather.wind_speed_mph,
                                             weather.wind_direction,
                                             shot_bearing, raw_distance)
             wind_adj == wind.distance_adjustment + wind.lateral_adjustment
         IN  IF wind_adj # 0
             THEN [adjustments |->
                       Append(acc.adjustments, ShotAdjustment("wind", wind_adj)),
                   total_adj |-> acc.total_adj + wind_adj]
             ELSE acc
    ELSE acc

\* 2. Wind, lines 102-116.
WindStep(acc, raw_distance, weather, shot_bearing) ==
    IF weather.wind_speed_mph >= 3
    THEN LET wind == compute_wind_adjustment(weather.wind_speed_mph,
                                             weather.wind_direction,
                                             shot_bearing, raw_distance)
             wind_adj == wind.distance_adjustment
         IN  IF wind_adj # 0
             THEN [adjustments |->
                       Append(acc.adjustments, ShotAdjustment("wind", wind_adj)),
                   total_adj |-> acc.total_adj + wind_adj]
             ELSE acc
    ELSE acc

\* A temperature factor listed from one yard up.
TemperatureStepFromOneYard(acc, weather) ==
    LET temp_adj == Round(-(weather.temperature_f - 70), 5)
    IN  IF Abs(temp_adj) >= 1
        THEN [adjustments |->
                  Append(acc.adjustments, ShotAdjustment("temperature", temp_adj)),
              total_adj |-> acc.total_adj + temp_adj]
        ELSE acc

\* 3. Temperature, lines 119-128.
TemperatureStep(acc, weather) ==
    LET temp_diff == weather.temperature_f - 70
        temp_adj == Round(-temp_diff, 5)
    IN  IF Abs(temp_adj) >= 2
        THEN [adjustments |->
                  Append(acc.adjustments, ShotAdjustment("temperature", temp_adj)),
              total_adj |-> acc.total_adj + temp_adj]
        ELSE acc

\* An altitude factor worked out from the distance as adjusted so far, not
\* from the raw distance.
AltitudeStepFromRunningTotal(acc, raw_distance, weather) ==
    IF weather.altitude_ft > 500
    THEN LET alt_adj == Round(-(raw_distance + acc.total_adj) * weather.altitude_ft,
                              50000) IN
         IF Abs(alt_adj) >= 2
         THEN [adjustments |->
                   Append(acc.adjustments, ShotAdjustment("altitude", alt_adj)),
               total_adj |-> acc.total_adj + alt_adj]
         ELSE acc
    ELSE acc

\* 4. Altitude, lines 131-140.
AltitudeStep(acc, raw_distance, weather) ==
    IF weather.altitude_ft > 500
    THEN LET alt_adj == Round(-raw_distance * weather.altitude_ft, 50000) IN
         IF Abs(alt_adj) >= 2
         THEN [adjustments |->
                   Append(acc.adjustments, ShotAdjustment("altitude", alt_adj)),
               total_adj |-> acc.total_adj + alt_adj]
         ELSE acc
    ELSE acc

\* A conditions factor that changes the total and lists nothing.
ConditionsStepUnlisted(acc, raw_distance, weather) ==
    IF weather.conditions = "soft"
    THEN [acc EXCEPT !.total_adj = @ + Round(raw_distance * 3, 100)]
    ELSE acc

\* 5. Conditions, lines 143-160.
ConditionsStep(acc, raw_distance, weather) ==
    IF weather.conditions = "soft"
    THEN LET cond_adj == Round(raw_distance * 3, 100) IN
         IF cond_adj >= 2
         THEN [adjustments |->
                   Append(acc.adjustments, ShotAdjustment("conditions", cond_adj)),
               total_adj |-> acc.total_adj + cond_adj]
         ELSE acc
    ELSE IF weather.conditions = "firm"
    THEN LET cond_adj == Round(-raw_distance * 2, 100) IN
         IF cond_adj <= -2
         THEN [adjustments |->
                   Append(acc.adjustments, ShotAdjustment("conditions", cond_adj)),
               total_adj |-> acc.total_adj + cond_adj]
         ELSE acc
    ELSE acc

\* club_selection.py, compute_adjustments: (adjusted distance, adjustments).
compute_adjustments(raw_distance, elevation_change_ft, weather, shot_bearing) ==
    LET elevation == ElevationStep(NoAdjustments, elevation_change_ft)
        all == IF weather # NoWeather
               THEN ConditionsStep(
                        AltitudeStep(
                            TemperatureStep(
                                WindStep(elevation, raw_distance, weather,
                                         shot_bearing),
                                weather),
                            raw_distance, weather),
                        raw_distance, weather)
               ELSE elevation
        adjusted == raw_distance + all.total_adj
    IN  [fn |-> "compute_adjustments",
         adjusted |-> Max(1, adjusted),
         adjustments |-> all.adjustments]

\* The arguments the calls are drawn from.
RawDistances == {0, 1, 50, 100, 125, 150, 250}

\* Half feet: -30 ft, -4.5 ft, -1.5 ft, -1 ft, 0, 1 ft, 1.5 ft, 2 ft, 7.5 ft.
ElevationChanges == {-60, -9, -3, -2, 0, 2, 3, 4, 15}

Temperatures == {30, 60, 63, 70, 100}

WindSpeeds == {2, 3, 10, 25}

WindDirections == {0, 90, 180, 270}

ShotBearings == {0, 90}

Altitudes == {0, 500, 750, 5280}

Conditions == {"soft", "medium", "firm"}

Weathers ==
    {NoWeather} \cup
    { WeatherConditions(t, w, d, a, c) :
        t \in Temperatures, w \in WindSpeeds, d \in WindDirections,
        a \in Altitudes, c \in Conditions }

AdjustmentCalls ==
    [fn : {"compute_adjustments"},
     raw_distance : RawDistances,
     elevation_change_ft : ElevationChanges,
     weather : Weathers,
     shot_bearing : ShotBearings]

InitAdjustments ==
    /\ InitStore
    /\ call \in AdjustmentCalls
    /\ result = NoResult

\* The call returns.
ComputeAdjustments ==
    /\ call.fn = "compute_adjustments"
    /\ result = NoResult
    /\ result' = compute_adjustments(call.raw_distance, call.elevation_change_ft,
                                     call.weather, call.shot_bearing)
    /\ UNCHANGED <<call, storeVars>>

NextAdjustments == ComputeAdjustments

SpecAdjustments == InitAdjustments /\ [][NextAdjustments]_vars

\* --------------------------------------------------------- club selection
\* app/caddie/club_selection.py.  A dict is the sequence of its items, in
\* insertion order, no key twice; an item is <<key, value>>.

DEFAULT_CLUB_DISTANCES ==
    << <<"driver", 250>>, <<"3wood", 230>>, <<"5wood", 215>>,
       <<"hybrid", 200>>, <<"4iron", 190>>, <<"5iron", 180>>,
       <<"6iron", 170>>, <<"7iron", 160>>, <<"8iron", 150>>,
       <<"9iron", 140>>, <<"pw", 130>>, <<"gw", 115>>, <<"sw", 100>>,
       <<"lw", 85>> >>

\* The keys of a dict.
Keys(d) == { d[i][1] : i \in DOMAIN d }

\* sorted(distances.items(), key=lambda x: x[1], reverse=True), line 184: the
\* sort is stable, items of equal distance keep the order of the dict.
RECURSIVE SortedByDistance(_)
SortedByDistance(items) ==
    IF items = <<>>
    THEN <<>>
    ELSE LET n == Len(items)
             x == items[n]
             front == SortedByDistance(SubSeq(items, 1, n - 1))
             k == Cardinality({ i \in DOMAIN front : front[i][2] >= x[2] })
         IN  SubSeq(front, 1, k) \o <<x>> \o SubSeq(front, k + 1, Len(front))

\* A scan that keeps the last club within the limit, not the first.
LastWithin(clubs, limit) ==
    LET within == { i \in DOMAIN clubs : clubs[i][2] <= limit }
    IN  IF within = {}
        THEN clubs[Len(clubs)]
        ELSE clubs[CHOOSE i \in within : \A j \in within : i >= j]

\* Lines 197-201: the shortest club, unless the scan from the longest club
\* down meets a club within the limit; the first one met is kept.
FirstWithin(clubs, limit) ==
    LET within == { i \in DOMAIN clubs : clubs[i][2] <= limit }
    IN  IF within = {}
        THEN clubs[Len(clubs)]
        ELSE clubs[CHOOSE i \in within : \A j \in within : i <= j]

\* A bias table with the two signs exchanged.
BiasYardsExchanged(bias) ==
    IF bias = "conservative" THEN -5
    ELSE IF bias = "aggressive" THEN 5
    ELSE 0

\* Lines 189-193.
BiasYards(bias) ==
    IF bias = "conservative" THEN 5
    ELSE IF bias = "aggressive" THEN -5
    ELSE 0

\* A table taken as it is given, empty or not.
TableUsedAsGiven(club_distances) == club_distances

\* Line 181: the table given, or the built-in one when that is empty.
TableUsed(club_distances) ==
    IF club_distances # <<>> THEN club_distances ELSE DEFAULT_CLUB_DISTANCES

\* select_club, lines 181-203: (club, distance).
select_club(target_yards, club_distances, bias) ==
    LET distances == TableUsed(club_distances)
        clubs == SortedByDistance(distances)
    IN  IF clubs = <<>>
        THEN <<"7iron", 160>>
        ELSE LET target_with_bias == target_yards + BiasYards(bias)
             IN  FirstWithin(clubs, target_with_bias + 8)

\* The arguments the calls are drawn from: tables of up to three clubs, in
\* every insertion order, two clubs of one carry among them, and the empty
\* table.
ClubKeys == {"driver", "7iron", "pw"}

Carries == {100, 150, 155, 160, 250}

Targets == {1, 90, 142, 147, 152, 260}

Biases == {"conservative", "moderate", "aggressive"}

ClubTables ==
    { d \in UNION { [1 .. n -> ClubKeys \X Carries] : n \in 0 .. 3 } :
        \A i, j \in DOMAIN d : d[i][1] = d[j][1] => i = j }

ClubCalls ==
    [fn : {"select_club"},
     target_yards : Targets,
     club_distances : ClubTables,
     bias : Biases]

InitClubs ==
    /\ InitStore
    /\ call \in ClubCalls
    /\ result = NoResult

\* The call returns.
SelectClub ==
    /\ call.fn = "select_club"
    /\ result = NoResult
    /\ result' = [fn |-> "select_club",
                  best_club |-> select_club(call.target_yards,
                                            call.club_distances, call.bias)]
    /\ UNCHANGED <<call, storeVars>>

NextClubs == SelectClub

SpecClubs == InitClubs /\ [][NextClubs]_vars

\* ------------------------------------------------------------ hole danger
\* app/caddie/aim_point.py, classify_pin_position and compute_miss_side.  A
\* hazard is its side, its distance from the green in yards and its penalty
\* severity; the texts of the miss side are left out.

Hazard(side, distance_from_green, penalty_severity) ==
    [side |-> side,
     distance_from_green |-> distance_from_green,
     penalty_severity |-> penalty_severity]

\* A count of the severe hazards within 20 yards, not 10.
severe_close_within_20(hazards) ==
    SelectSeq(hazards,
              LAMBDA h : /\ h.penalty_severity \in {"severe", "death"}
                         /\ h.distance_from_green <= 20)

\* Lines 40-44.
severe_close(hazards) ==
    SelectSeq(hazards,
              LAMBDA h : /\ h.penalty_severity \in {"severe", "death"}
                         /\ h.distance_from_green <= 10)

\* classify_pin_position, lines 25-56.
classify_pin_position(hazards) ==
    IF hazards = <<>> THEN "green"
    ELSE IF Len(severe_close(hazards)) >= 2 THEN "red"
    ELSE IF Len(severe_close(hazards)) = 1 THEN "yellow"
    ELSE IF SelectSeq(hazards, LAMBDA h : h.penalty_severity = "death") # <<>>
    THEN "yellow"
    ELSE "green"

\* A score table in which a death hazard counts for nothing.
ScoresWithoutDeath(s) ==
    CASE s = "mild" -> 1
      [] s = "moderate" -> 2
      [] s = "severe" -> 3
      [] OTHER -> 0

\* scores.get(s, 0), line 121.
Scores(s) ==
    CASE s = "mild" -> 1
      [] s = "moderate" -> 2
      [] s = "severe" -> 3
      [] s = "death" -> 5
      [] OTHER -> 0

\* A side list that takes the hazards of the side at any distance.
side_severity_at_any_distance(hazards, side) ==
    SelectSeq(hazards, LAMBDA h : h.side = side)

\* side_severity[side], lines 108-117: the severities of the hazards of a
\* side within 20 yards; the side "center" has no list.
side_severity(hazards, side) ==
    SelectSeq(hazards,
              LAMBDA h : h.side = side /\ h.distance_from_green <= 20)

\* severity_score, lines 120-124.
severity_score(severities) ==
    IF severities = <<>>
    THEN 0
    ELSE LET all == { Scores(severities[i].penalty_severity) :
                        i \in DOMAIN severities }
         IN  CHOOSE m \in all : \A x \in all : x <= m

\* A choice between the two axes by the rule the other way round.
PreferredShortLongFirst(best_lr, best_fb) ==
    IF best_fb[3] > best_lr[3] THEN best_lr[1] ELSE best_fb[1]

\* Line 149.
Preferred(best_lr, best_fb) ==
    IF best_lr[3] > best_fb[3] THEN best_lr[1] ELSE best_fb[1]

\* avoid_map.get(preferred, "right"), lines 152-158.
AvoidSide(preferred) ==
    CASE preferred = "left" -> "right"
      [] preferred = "right" -> "left"
      [] preferred = "short" -> "long"
      [] preferred = "long" -> "short"
      [] OTHER -> "right"

\* compute_miss_side, lines 92-200: the preferred side and the side to avoid.
compute_miss_side(hazards) ==
    IF hazards = <<>>
    THEN [preferred |-> "short", avoid |-> "long"]
    ELSE LET left_score == severity_score(side_severity(hazards, "left"))
             right_score == severity_score(side_severity(hazards, "right"))
             front_score == severity_score(side_severity(hazards, "front"))
             back_score == severity_score(side_severity(hazards, "back"))
             best_lr == IF left_score <= right_score
                        THEN <<"left", left_score, right_score>>
                        ELSE <<"right", right_score, left_score>>
             best_fb == IF front_score <= back_score
                        THEN <<"short", front_score, back_score>>
                        ELSE <<"long", back_score, front_score>>
             preferred == Preferred(best_lr, best_fb)
         IN  [preferred |-> preferred, avoid |-> AvoidSide(preferred)]

\* Up to three hazards.  For the pin: any severity, at 10, 20 and 25 yards,
\* on one side.  For the miss side: any side and severity, at 20 and 25
\* yards.
Severities == {"mild", "moderate", "severe", "death"}

PinHazards == { Hazard("right", d, v) : d \in {10, 20, 25}, v \in Severities }

MissHazards ==
    { Hazard(sd, d, v) :
        sd \in {"left", "right", "front", "back", "center"},
        d \in {20, 25}, v \in Severities }

HazardCalls ==
    [fn : {"classify_pin_position"},
     hazards : UNION { [1 .. n -> PinHazards] : n \in 0 .. 3 }]
    \cup
    [fn : {"compute_miss_side"},
     hazards : UNION { [1 .. n -> MissHazards] : n \in 0 .. 3 }]

InitHazards ==
    /\ InitStore
    /\ call \in HazardCalls
    /\ result = NoResult

\* classify_pin_position returns.
ClassifyPinPosition ==
    /\ call.fn = "classify_pin_position"
    /\ result = NoResult
    /\ result' = [fn |-> "classify_pin_position",
                  light |-> classify_pin_position(call.hazards)]
    /\ UNCHANGED <<call, storeVars>>

\* compute_miss_side returns.
ComputeMissSide ==
    /\ call.fn = "compute_miss_side"
    /\ result = NoResult
    /\ result' = [fn |-> "compute_miss_side",
                  miss_side |-> compute_miss_side(call.hazards)]
    /\ UNCHANGED <<call, storeVars>>

NextHazards == ClassifyPinPosition \/ ComputeMissSide

SpecHazards == InitHazards /\ [][NextHazards]_vars

\* No player statistics: player_stats=None.
NoStats == [present |-> FALSE]

\* compute_aim_point, lines 59-89.  The description is the sequence of its
\* sentences: the one the pin light gives, then the one that favors a side,
\* if any.
compute_aim_point(hazards, player_stats) ==
    LET pin_light == classify_pin_position(hazards)
        miss_dir == IF player_stats # NoStats
                    THEN player_stats.tendencies.miss_direction
                    ELSE "balanced"
        description ==
            IF pin_light = "green" THEN "Aim at the flag - green light, no trouble"
            ELSE IF pin_light = "yellow"
            THEN "Aim between the pin and center of green"
            ELSE "Aim center of green - sucker pin, don't chase it"
        death_sides == { hazards[i].side :
                           i \in { j \in DOMAIN hazards :
                                     hazards[j].penalty_severity = "death" } }
    IN  [description |->
             IF "right" \in death_sides /\ miss_dir \in {"right", "balanced"}
             THEN <<description, "Favor the left side - penalty right">>
             ELSE IF "left" \in death_sides /\ miss_dir \in {"left", "balanced"}
             THEN <<description, "Favor the right side - penalty left">>
             ELSE <<description>>]

\* ---------------------------------------------------------- club profiles
\* normalize_club_distances, and the part of generate_recommendation that
\* leads to the club.  A value of a profile as it arrives is <<>> for None
\* and <<n>> for the number n.

\* A key map that sends the canonical "3wood" back to "threeWood".
ProfileKeyBack(key) ==
    CASE key = "threeWood" -> "3wood"
      [] key = "3wood" -> "threeWood"
      [] OTHER -> key

\* _PROFILE_KEY_MAP.get(key, key), lines 45-60 and 69.
ProfileKey(key) ==
    CASE key = "driver" -> "driver"
      [] key = "threeWood" -> "3wood"
      [] key = "fiveWood" -> "5wood"
      [] key = "hybrid" -> "hybrid"
      [] key = "fourIron" -> "4iron"
      [] key = "fiveIron" -> "5iron"
      [] key = "sixIron" -> "6iron"
      [] key = "sevenIron" -> "7iron"
      [] key = "eightIron" -> "8iron"
      [] key = "nineIron" -> "9iron"
      [] key = "pitchingWedge" -> "pw"
      [] key = "gapWedge" -> "gw"
      [] key = "sandWedge" -> "sw"
      [] key = "lobWedge" -> "lw"
      [] OTHER -> key

\* d[key] = value: a key the dict has keeps its place, a new one goes last.
DictSet(d, key, value) ==
    IF key \in Keys(d)
    THEN [i \in DOMAIN d |-> IF d[i][1] = key THEN <<key, value>> ELSE d[i]]
    ELSE Append(d, <<key, value>>)

\* `not value or value <= 0`, line 67.
Dropped(value) == value = <<>> \/ value[1] = 0 \/ value[1] <= 0

\* normalize_club_distances, lines 63-71.
RECURSIVE normalize_club_distances(_)
normalize_club_distances(raw) ==
    IF raw = <<>>
    THEN <<>>
    ELSE LET n == Len(raw)
             normalized == normalize_club_distances(SubSeq(raw, 1, n - 1))
             key == raw[n][1]
             value == raw[n][2]
         IN  IF Dropped(value)
             THEN normalized
             ELSE DictSet(normalized, ProfileKey(key), value)

\* The dict[str, int] select_club reads: each value is a number.
Yardages(d) == [i \in DOMAIN d |-> <<d[i][1], d[i][2][1]>>]

\* A confidence without its cap.
ConfidenceUncapped(hole, weather, player_stats) ==
    50 + (IF weather # NoWeather THEN 15 ELSE 0)
       + (IF hole.elevation_change_ft # 0 THEN 10 ELSE 0)
       + (IF player_stats # NoStats /\ player_stats.rounds_analyzed > 5
          THEN 15 ELSE 0)
       + (IF hole.hazards # <<>> THEN 10 ELSE 0)

\* generate_recommendation, lines 287-297: the confidence, in hundredths.
Confidence(hole, weather, player_stats) ==
    Min(50 + (IF weather # NoWeather THEN 15 ELSE 0)
           + (IF hole.elevation_change_ft # 0 THEN 10 ELSE 0)
           + (IF player_stats # NoStats /\ player_stats.rounds_analyzed > 5
              THEN 15 ELSE 0)
           + (IF hole.hazards # <<>> THEN 10 ELSE 0),
        95)

\* aim_point.py, generate_recommendation, lines 203-310: the club, the
\* distance it is selected for, the aim point, the miss side, the
\* adjustments and the confidence.  The hole is its yards, its elevation
\* change and its hazards; the reasoning, the aggressiveness and the
\* expected score are left out.
generate_recommendation(hole, distance_yards, club_distances, weather, player_stats, shot_bearing) ==
    LET clubs == IF club_distances # <<>>
                 THEN normalize_club_distances(club_distances)
                 ELSE <<>>
        adjusted == compute_adjustments(distance_yards, hole.elevation_change_ft,
                                        weather, shot_bearing)
        is_tee_shot == 100 * distance_yards >= 85 * hole.yards
        bias == IF is_tee_shot THEN "moderate" ELSE "conservative"
        best == select_club(adjusted.adjusted, Yardages(clubs), bias)
    IN  [fn |-> "generate_recommendation",
         club |-> best[1],
         target_yards |-> adjusted.adjusted,
         raw_yards |-> distance_yards,
         aim_point |-> compute_aim_point(hole.hazards, player_stats),
         miss_side |-> compute_miss_side(hole.hazards),
         adjustments |-> adjusted.adjustments,
         confidence |-> Confidence(hole, weather, player_stats)]

\* Profiles of up to three entries: a key of the external format, its
\* canonical form, a key both formats share and one neither knows; values
\* missing, negative, zero and positive.
ProfileKeys == {"threeWood", "3wood", "driver", "putter"}

ProfileValues == {<<>>, <<-5>>, <<0>>, <<210>>, <<230>>}

Profiles ==
    { d \in UNION { [1 .. n -> ProfileKeys \X ProfileValues] : n \in 0 .. 3 } :
        \A i, j \in DOMAIN d : d[i][1] = d[j][1] => i = j }

NormalizeCalls == [fn : {"normalize_club_distances"}, raw : Profiles]

\* Recommendations on a hole of 400 yards, level or 7.5 ft uphill, from the
\* tee and from closer in, in no weather or in a cold headwind.
RecommendCalls ==
    [fn : {"generate_recommendation"},
     hole : [yards : {400}, elevation_change_ft : {0, 15}, hazards : {<<>>}],
     distance_yards : {1, 150, 225, 340, 400},
     club_distances : Profiles,
     weather : {NoWeather, WeatherConditions(30, 10, 0, 0, "soft")},
     player_stats : {NoStats},
     shot_bearing : {0}]

InitProfiles ==
    /\ InitStore
    /\ call \in NormalizeCalls \cup RecommendCalls
    /\ result = NoResult

\* normalize_club_distances returns.
Normalize ==
    /\ call.fn = "normalize_club_distances"
    /\ result = NoResult
    /\ result' = [fn |-> "normalize_club_distances",
                  result |-> normalize_club_distances(call.raw)]
    /\ UNCHANGED <<call, storeVars>>

\* generate_recommendation returns.
GenerateRecommendation ==
    /\ call.fn = "generate_recommendation"
    /\ result = NoResult
    /\ result' = generate_recommendation(call.hole, call.distance_yards,
                                         call.club_distances, call.weather,
                                         call.player_stats, call.shot_bearing)
    /\ UNCHANGED <<call, storeVars>>

NextProfiles == Normalize \/ GenerateRecommendation

SpecProfiles == InitProfiles /\ [][NextProfiles]_vars

\* Recommendations on holes with up to two hazards, for players with and
\* without statistics, with an empty club profile.
PlayerStats ==
    {NoStats} \cup
    [rounds_analyzed : {0, 5, 6},
     tendencies : [miss_direction : {"left", "right", "balanced"}]]

AdviceHazards ==
    { Hazard(sd, d, v) :
        sd \in {"left", "right", "front", "back"},
        d \in {5, 25},
        v \in {"moderate", "severe", "death"} }

AdviceCalls ==
    [fn : {"generate_recommendation"},
     hole : [yards : {400},
             elevation_change_ft : {0, 15},
             hazards : UNION { [1 .. n -> AdviceHazards] : n \in 0 .. 2 }],
     distance_yards : {150},
     club_distances : {<<>>},
     weather : {NoWeather, WeatherConditions(30, 10, 0, 0, "soft")},
     player_stats : PlayerStats,
     shot_bearing : {0}]

InitAdvice ==
    /\ InitStore
    /\ call \in AdviceCalls
    /\ result = NoResult

NextAdvice == GenerateRecommendation

SpecAdvice == InitAdvice /\ [][NextAdvice]_vars

\* -------------------------------------------------------- expected strokes
\* app/caddie/strokes_gained.py.  The tables hold strokes in hundredths; an
\* interpolated table value is in ten-thousandths of a stroke, a multiplier
\* in three-thousandths, and expected strokes and strokes gained in units of
\* 1/30,000,000 stroke, in which every value met here is a whole number.
\* Distances and handicaps are whole numbers; a handicap is <<>> for None
\* and <<h>> for the number h.

TEE_TABLE ==
    << <<600, 440>>, <<550, 430>>, <<500, 420>>, <<480, 415>>,
       <<460, 412>>, <<440, 408>>, <<420, 405>>, <<400, 400>>,
       <<380, 396>>, <<360, 392>>, <<340, 388>>, <<320, 384>>,
       <<300, 380>>, <<280, 375>>, <<260, 370>>, <<240, 365>>,
       <<220, 358>>, <<200, 350>>, <<180, 340>>, <<160, 328>>,
       <<140, 315>>, <<120, 300>>, <<100, 285>> >>

FAIRWAY_TABLE ==
    << <<260, 360>>, <<240, 350>>, <<220, 340>>, <<200, 325>>,
       <<190, 318>>, <<180, 312>>, <<175, 308>>, <<170, 305>>,
       <<160, 298>>, <<150, 292>>, <<140, 286>>, <<130, 282>>,
       <<125, 280>>, <<120, 278>>, <<110, 274>>, <<100, 270>>,
       <<90, 266>>, <<80, 262>>, <<70, 258>>, <<60, 255>>,
       <<50, 252>>, <<40, 250>>, <<30, 247>> >>

ROUGH_TABLE ==
    << <<200, 360>>, <<180, 345>>, <<160, 330>>, <<150, 315>>,
       <<140, 310>>, <<130, 305>>, <<120, 300>>, <<100, 295>>,
       <<80, 285>>, <<60, 278>>, <<50, 275>>, <<40, 272>>,
       <<30, 268>>, <<20, 263>> >>

SAND_TABLE ==
    << <<60, 280>>, <<50, 270>>, <<40, 260>>, <<30, 253>>,
       <<20, 243>>, <<10, 230>> >>

GREEN_TABLE ==
    << <<90, 260>>, <<80, 255>>, <<70, 250>>, <<60, 240>>,
       <<50, 230>>, <<45, 225>>, <<40, 220>>, <<35, 214>>,
       <<30, 210>>, <<25, 202>>, <<20, 194>>, <<15, 180>>,
       <<10, 163>>, <<8, 150>>, <<6, 138>>, <<5, 128>>,
       <<4, 120>>, <<3, 113>>, <<2, 106>>, <<1, 102>> >>

\* A multiplier table that dips at handicap 20.
HANDICAP_MULTIPLIERS_DIP ==
    << <<0, 100>>, <<5, 106>>, <<10, 114>>, <<15, 122>>,
       <<20, 118>>, <<25, 142>>, <<30, 155>>, <<36, 170>> >>

\* _HANDICAP_MULTIPLIERS, lines 53-62, in the order of its sorted keys.
HANDICAP_MULTIPLIERS ==
    << <<0, 100>>, <<5, 106>>, <<10, 114>>, <<15, 122>>,
       <<20, 132>>, <<25, 142>>, <<30, 155>>, <<36, 170>> >>

\* _interpolate, lines 65-81.
interpolate(table, distance) ==
    IF table = <<>> THEN 300 * 100
    ELSE IF distance >= table[1][1] THEN table[1][2] * 100
    ELSE IF distance <= table[Len(table)][1] THEN table[Len(table)][2] * 100
    ELSE LET within == { i \in 1 .. Len(table) - 1 :
                           table[i + 1][1] <= distance /\ distance <= table[i][1] }
         IN  IF within = {}
             THEN table[Len(table)][2] * 100
             ELSE LET i == CHOOSE i \in within : \A j \in within : i <= j
                      d1 == table[i][1]
                      s1 == table[i][2]
                      d2 == table[i + 1][1]
                      s2 == table[i + 1][2]
                  IN  IF d1 # d2
                      THEN s2 * 100 + ((distance - d2) * (s1 - s2) * 100) \div (d1 - d2)
                      ELSE s2 * 100

\* _handicap_multiplier, lines 84-105.
handicap_multiplier(handicap) ==
    LET h == IF handicap = <<>> THEN 15 ELSE handicap[1]
        hcp == Max(0, Min(36, h))
        keys == HANDICAP_MULTIPLIERS
        n == Len(keys)
    IN  IF hcp <= keys[1][1] THEN keys[1][2] * 30
        ELSE IF hcp >= keys[n][1] THEN keys[n][2] * 30
        ELSE LET within == { i \in 1 .. n - 1 :
                               keys[i][1] <= hcp /\ hcp <= keys[i + 1][1] }
             IN  IF within = {}
                 THEN 120 * 30
                 ELSE LET i == CHOOSE i \in within : \A j \in within : i <= j
                          k1 == keys[i][1]
                          k2 == keys[i + 1][1]
                      IN  keys[i][2] * 30
                          + ((hcp - k1) * (keys[i + 1][2] - keys[i][2]) * 30)
                                \div (k2 - k1)

\* tables.get(lie, _FAIRWAY_TABLE), lines 123-131.
TableOf(lie) ==
    CASE lie = "tee" -> TEE_TABLE
      [] lie = "fairway" -> FAIRWAY_TABLE
      [] lie = "rough" -> ROUGH_TABLE
      [] lie = "sand" -> SAND_TABLE
      [] lie = "green" -> GREEN_TABLE
      [] OTHER -> FAIRWAY_TABLE

\* expected_strokes, lines 108-139.
expected_strokes(distance_yards, lie, handicap) ==
    interpolate(TableOf(lie), distance_yards) * handicap_multiplier(handicap)

\* One stroke, in the unit of expected_strokes.
OneStroke == 100 * 100 * 100 * 30

\* strokes_gained, lines 142-163.
strokes_gained(strokes_taken, start_distance, start_lie, end_distance, end_lie, handicap) ==
    LET expected_before == expected_strokes(start_distance, start_lie, handicap)
        expected_after ==
            IF end_distance = 0 /\ end_lie = "hole"
            THEN 0
            ELSE expected_strokes(end_distance, end_lie, handicap)
    IN  expected_before - expected_after - strokes_taken * OneStroke

\* The arguments the calls are drawn from.
Lies == {"tee", "fairway", "rough", "sand", "green", "hole"}

Handicaps == {<<>>, <<-3>>, <<0>>, <<3>>, <<5>>, <<18>>, <<33>>, <<36>>, <<40>>}

ExpectedStrokesCalls ==
    [fn : {"expected_strokes"},
     distance_yards : {0, 1, 7, 25, 150, 155, 300, 700},
     lie : Lies,
     handicap : Handicaps]

StrokesGainedCalls ==
    [fn : {"strokes_gained"},
     strokes_taken : {1, 2},
     start_distance : {7, 150, 400},
     start_lie : {"tee", "fairway", "green"},
     end_distance : {0, 5, 150},
     end_lie : {"fairway", "green", "hole"},
     handicap : {<<>>, <<0>>, <<18>>}]

InitStrokes ==
    /\ InitStore
    /\ call \in ExpectedStrokesCalls \cup StrokesGainedCalls
    /\ result = NoResult

\* expected_strokes returns.
ExpectedStrokes ==
    /\ call.fn = "expected_strokes"
    /\ result = NoResult
    /\ result' = [fn |-> "expected_strokes",
                  value |-> expected_strokes(call.distance_yards, call.lie,
                                             call.handicap)]
    /\ UNCHANGED <<call, storeVars>>

\* strokes_gained returns.
StrokesGained ==
    /\ call.fn = "strokes_gained"
    /\ result = NoResult
    /\ result' = [fn |-> "strokes_gained",
                  value |-> strokes_gained(call.strokes_taken,
                                           call.start_distance, call.start_lie,
                                           call.end_distance, call.end_lie,
                                           call.handicap)]
    /\ UNCHANGED <<call, storeVars>>

NextStrokes == ExpectedStrokes \/ StrokesGained

SpecStrokes == InitStrokes /\ [][NextStrokes]_vars

\* ------------------------------------------------ expired sessions (lookups)

\* The store holding, for each round id, a session last accessed 8 hours and
\* 1 minute ago: the map and the objects as get_or_create and update leave
\* them, and then 8h01m without a request.
IdleSeconds == 8 * 60 * 60 + 60

InitLookups ==
    /\ clock = Epoch + IdleSeconds
    /\ sessions = [r \in RoundIds |-> IF r = "r1" THEN 1 ELSE 2]
    /\ lock = None
    /\ heap = [o \in ObjIds |->
                 IF o = 1 THEN RoundSession("r1", None, Epoch, Epoch)
                 ELSE IF o = 2 THEN RoundSession("r2", None, Epoch, Epoch)
                 ELSE Unallocated]
    /\ nalloc = 2
    /\ ticks = 0
    /\ requests = 0
    /\ pc = [t \in Threads |-> "idle"]
    /\ op = [t \in Threads |-> NoOp]
    /\ now = [t \in Threads |-> 0]
    /\ session = [t \in Threads |-> NoSession]
    /\ resp = [t \in Threads |-> "none"]
    /\ call = NoCall
    /\ result = NoResult

\* Only lookups arrive, for either round, from either thread.
NextLookups ==
    \/ \E d \in TickSteps : Tick(d)
    \/ \E t \in Threads, r \in RoundIds :
          \/ GetSessionStatus(t, r)
          \/ RecordShot(t, r)
          \/ GetWeather(t, r)
          \/ Return(t)

SpecLookups == InitLookups /\ [][NextLookups]_vars

\* ---------------------------------------------------- player statistics
\*
\* app/caddie/player_stats.py.  A handicap is kept in tenths, <<>> for None;
\* percentages in tenths of a percent; par averages in sixtieths of a
\* stroke; the per-round figures in thousandths.

\* _default_stats, lines 163-201.
default_stats(handicap) ==
    LET hcp == IF handicap = <<>> \/ handicap[1] = 0 THEN 150 ELSE handicap[1]
        tier == IF hcp <= 50 THEN 1
                ELSE IF hcp <= 150 THEN 2
                ELSE IF hcp <= 250 THEN 3
                ELSE 4
        dist == << [eagles |-> 10, birdies |-> 150, pars |-> 500,
                    bogeys |-> 250, doubles |-> 70, triples_plus |-> 20],
                   [eagles |-> 5, birdies |-> 80, pars |-> 350,
                    bogeys |-> 350, doubles |-> 150, triples_plus |-> 65],
                   [eagles |-> 2, birdies |-> 30, pars |-> 200,
                    bogeys |-> 350, doubles |-> 250, triples_plus |-> 168],
                   [eagles |-> 0, birdies |-> 10, pars |-> 100,
                    bogeys |-> 250, doubles |-> 300, triples_plus |-> 340] >>
        par_avg == << [par3 |-> 186, par4 |-> 252, par5 |-> 294],
                      [par3 |-> 210, par4 |-> 288, par5 |-> 318],
                      [par3 |-> 240, par4 |-> 318, par5 |-> 360],
                      [par3 |-> 270, par4 |-> 348, par5 |-> 408] >>
    IN  [fn |-> "analyze_player_stats",
         handicap |-> handicap,
         rounds_analyzed |-> 0,
         scoring_distribution |-> dist[tier],
         par_averages |-> par_avg[tier],
         tendencies |->
             [miss_direction |-> IF hcp > 100 THEN "right" ELSE "balanced",
              miss_short_pct |-> IF hcp > 100 THEN 580 ELSE 520,
              miss_long_pct |-> IF hcp > 100 THEN 420 ELSE 480,
              three_putts_per_round |-> Max(500, hcp * 15),
              doubles_per_round |-> Max(500, hcp * 15),
              par5_bogey_rate |-> 200,
              scoring_zone_bogey_rate |-> 250]]

\* holes_by_num.get(hole_num, {}).get("par", 4), lines 36 and 50-51: the
\* last hole of the number decides.
ParOf(holes, hole_num) ==
    LET with == { i \in DOMAIN holes : holes[i].number = hole_num }
    IN  IF with = {} THEN 4
        ELSE holes[CHOOSE i \in with : \A j \in with : j <= i].par

\* Lines 45-57: the scores of one round that have strokes and a hole number.
RoundScores(rnd) ==
    LET usable == SelectSeq(rnd.scores,
                            LAMBDA s : s.strokes # <<>> /\ s.holeNumber # <<>>)
    IN  [i \in 1..Len(usable) |->
            [holeNumber |-> usable[i].holeNumber[1],
             strokes |-> usable[i].strokes[1],
             par |-> ParOf(rnd.holes, usable[i].holeNumber[1])]]

\* all_scores, lines 32-57.
RECURSIVE all_scores(_)
all_scores(rounds) ==
    IF rounds = <<>> THEN <<>>
    ELSE RoundScores(Head(rounds)) \o all_scores(Tail(rounds))

\* analyze_player_stats, lines 14-123.
analyze_player_stats(rounds, handicap) ==
    LET scores == all_scores(rounds)
        rounds_analyzed == Len(SelectSeq(rounds, LAMBDA rnd : rnd.scores # <<>>))
        total_holes == Len(scores)
        Count(Test(_)) == Len(SelectSeq(scores, Test))
        Percent(count) == Round(count * 1000, total_holes)
        Total(par) ==
            LET of == SelectSeq(scores, LAMBDA s : s.par = par)
                sum[i \in 0..Len(of)] ==
                    IF i = 0 THEN 0 ELSE sum[i - 1] + of[i].strokes
            IN  <<sum[Len(of)], Len(of)>>
        Average(par, default) ==
            IF Total(par)[2] = 0 THEN default
            ELSE (Total(par)[1] * 60) \div Total(par)[2]
        doubles_total == Count(LAMBDA s : s.strokes >= s.par + 2)
        par5_bogey == Count(LAMBDA s : s.par = 5 /\ s.strokes >= 6)
        par5_total == Total(5)[2]
        effective == IF handicap = <<>> \/ handicap[1] = 0
                     THEN 150 ELSE handicap[1]
    IN  IF rounds = <<>> \/ scores = <<>>
        THEN default_stats(handicap)
        ELSE [fn |-> "analyze_player_stats",
              handicap |-> handicap,
              rounds_analyzed |-> rounds_analyzed,
              scoring_distribution |->
                  [eagles |-> Percent(Count(LAMBDA s : s.strokes <= s.par - 2)),
                   birdies |-> Percent(Count(LAMBDA s : s.strokes = s.par - 1)),
                   pars |-> Percent(Count(LAMBDA s : s.strokes = s.par)),
                   bogeys |-> Percent(Count(LAMBDA s : s.strokes = s.par + 1)),
                   doubles |-> Percent(Count(LAMBDA s : s.strokes = s.par + 2)),
                   triples_plus |->
                       Percent(Count(LAMBDA s : s.strokes >= s.par + 3))],
              par_averages |-> [par3 |-> Average(3, 210),
                                par4 |-> Average(4, 288),
                                par5 |-> Average(5, 330)],
              tendencies |->
                  [miss_direction |->
                       IF handicap # <<>> /\ handicap[1] > 100
                       THEN "right" ELSE "balanced",
                   miss_short_pct |-> IF effective > 100 THEN 580 ELSE 520,
                   miss_long_pct |-> IF effective > 100 THEN 420 ELSE 480,
                   three_putts_per_round |->
                       Max(500, Min(5000, effective * 15)),
                   doubles_per_round |->
                       100 * Round(doubles_total * 10, Max(rounds_analyzed, 1)),
                   par5_bogey_rate |->
                       IF par5_total > 0
                       THEN Round(par5_bogey * 1000, par5_total) ELSE 200,
                   scoring_zone_bogey_rate |-> 250]]

\* The handicaps of the calls: none, scratch, and the values on and next to
\* the thresholds 5, 10, 15 and 25, and 22.
StatsHandicaps ==
    {<<>>, <<0>>, <<50>>, <<51>>, <<100>>, <<101>>, <<150>>, <<151>>, <<220>>,
     <<250>>, <<251>>}

\* A score of a round: the hole and the strokes, either of which may be
\* missing.
ScoreEntries ==
    [holeNumber : {<<>>, <<1>>, <<2>>}, strokes : {<<>>, <<3>>, <<7>>}]

\* Up to two rounds of up to two scores, on a course with no hole data or
\* with a par 3 first and a par 5 second.
Rounds ==
    LET holes == {<<>>, <<[number |-> 1, par |-> 3], [number |-> 2, par |-> 5]>>}
        scores == UNION { [1..n -> ScoreEntries] : n \in 0..2 }
        round == [holes : holes, scores : scores]
    IN  UNION { [1..n -> round] : n \in 0..2 }

StatsCalls ==
    [fn : {"analyze_player_stats"}, rounds : Rounds, handicap : StatsHandicaps]

InitStats ==
    /\ InitStore
    /\ call \in StatsCalls
    /\ result = NoResult

\* The call returns.
AnalyzePlayerStats ==
    /\ call.fn = "analyze_player_stats"
    /\ result = NoResult
    /\ result' = analyze_player_stats(call.rounds, call.handicap)
    /\ UNCHANGED <<call, storeVars>>

NextStats == AnalyzePlayerStats

SpecStats == InitStats /\ [][NextStats]_vars

\* ------------------------------------------------------------ properties

\* The kinds of request whose handler starts with SessionManager.get.
LookupKinds == {"status", "shot", "recommend", "voice", "weather", "intel"}

\* The objects constructed so far.
Allocated == 1 .. nalloc

\* Object o is in the map.
Stored(map, o) == \E r \in RoundIds : map[r] = o

\* The step gives round id r an entry it did not have.
Inserts(r) == sessions[r] = NoSession /\ sessions'[r] # NoSession

\* The step is taken by the handler of a session start for round id r: its
\* get_or_create, or the update that follows it.
StartStep(r) ==
    \E t \in Threads :
        /\ op[t].kind = "start"
        /\ op[t].round_id = r
        /\ GetOrCreate(t) \/ Update(t)

\* A lookup of round id r has just answered "not found".
AnsweredNotFound(r) ==
    \E t \in Threads :
        /\ pc[t] = "done"
        /\ op[t].kind \in LookupKinds
        /\ op[t].round_id = r
        /\ resp[t] = NotFound(op[t].kind)

\* No handler other than t is between taking a request and answering it.
Alone(t) == \A u \in Threads \ {t} : pc[u] \in {"idle", "done"}

\* C1: a get on a round id whose session has not been accessed for more than
\* 8 hours returns nothing and removes the entry, and the session is absent
\* on every later get: once a lookup has answered "not found" and the session,
\* idle for more than 8 hours, is out of the map, nothing but a new session
\* start gives the id an entry.
C1_ExpiredSessionStaysAbsent ==
    [][/\ \A t \in Threads, k \in LookupKinds, r \in RoundIds :
            ( /\ Get(t, k, r)
              /\ sessions[r] # NoSession
              /\ clock - heap[sessions[r]].last_accessed > 8 * 60 * 60 )
            => /\ sessions'[r] = NoSession
               /\ session'[t] = NoSession
               /\ pc'[t] = "done"
       /\ \A o \in Allocated :
            ( /\ AnsweredNotFound(heap[o].round_id)
              /\ ~Stored(sessions, o)
              /\ clock - heap[o].last_accessed > 8 * 60 * 60 )
            => \/ ~Stored(sessions', o)
               \/ StartStep(heap[o].round_id)
      ]_vars

\* C2: every successful get, get_or_create or update sets last_accessed to
\* the current time, and a session whose last access is no more than 8 hours
\* back is handed out by get and left in the map by get and by the sweep.
C2_SlidingWindow ==
    [][/\ \A t \in Threads :
            /\ GetTouch(t) => heap'[session[t]].last_accessed = clock'
            /\ Update(t) => heap'[session[t]].last_accessed = clock'
            /\ GetOrCreate(t) => heap'[session'[t]].last_accessed = clock'
       /\ \A t \in Threads, k \in LookupKinds, r \in RoundIds :
            ( /\ Get(t, k, r)
              /\ sessions[r] # NoSession
              /\ clock - heap[sessions[r]].last_accessed <= 8 * 60 * 60 )
            => /\ session'[t] = sessions[r]
               /\ sessions' = sessions
       /\ \A t \in Threads, r \in RoundIds :
            ( /\ CleanupExpired(t)
              /\ sessions[r] # NoSession
              /\ clock - heap[sessions[r]].last_accessed <= 8 * 60 * 60 )
            => sessions'[r] = sessions[r]
      ]_vars

\* C3: once more than 8 hours have passed since a session's last access,
\* neither get nor get_or_create hands it back: get returns nothing, and
\* get_or_create constructs a fresh session as it does for an absent id.
\* Stated of a get_or_create that runs while no other request is in progress.
C3_EvictedOnEveryLookupPath ==
    [][/\ \A t \in Threads, k \in LookupKinds, r \in RoundIds :
            ( /\ Get(t, k, r)
              /\ sessions[r] # NoSession
              /\ clock - heap[sessions[r]].last_accessed > 8 * 60 * 60 )
            => session'[t] = NoSession
       /\ \A t \in Threads :
            ( /\ GetOrCreate(t)
              /\ Alone(t)
              /\ sessions[op[t].round_id] # NoSession
              /\ clock - heap[sessions[op[t].round_id]].last_accessed > 8 * 60 * 60 )
            => /\ session'[t] # sessions[op[t].round_id]
               /\ session'[t] = nalloc + 1
               /\ heap'[session'[t]] =
                     RoundSession(op[t].round_id, op[t].course_id, now[t], now[t])
      ]_vars

\* C4: with the session idle for 8h01m, concurrent gets for its round id all
\* return nothing, in every interleaving: no get hands out a session, and
\* once a get has answered the entry is gone.
C4_ConcurrentGetsBothNotFound ==
    \A t \in Threads :
        /\ session[t] = NoSession
        /\ pc[t] \in {"idle", "done"}
        /\ pc[t] = "done" =>
              /\ resp[t] = NotFound(op[t].kind)
              /\ resp[t] # "status:active"
              /\ sessions[op[t].round_id] = NoSession

\* Both threads have looked round r1 up, one after the other took the lock,
\* and both have "not found" in hand.
C4_Witness ==
    /\ \A t \in Threads :
          /\ pc[t] = "done"
          /\ op[t] = [kind |-> "status", round_id |-> "r1", course_id |-> None]
          /\ resp[t] = "status:not_found"
    /\ sessions["r1"] = NoSession
    /\ ticks = 0

C6_GetOrCreateAtomic ==
    [][\A t \in Threads : GetOrCreate(t) =>
          LET r == op[t].round_id IN
          /\ session'[t] = sessions'[r]
          /\ session'[t] # NoSession
          /\ \A q \in RoundIds \ {r} : sessions'[q] = sessions[q]
          /\ sessions[r] = NoSession =>
                /\ nalloc' = nalloc + 1
                /\ session'[t] = nalloc'
                /\ heap'[nalloc'].round_id = r
                /\ heap'[nalloc'].course_id = op[t].course_id
                /\ heap'[nalloc'].created_at = now[t]
                /\ heap'[nalloc'].last_accessed = now[t]
                /\ \A o \in ObjIds \ {nalloc'} : heap'[o] = heap[o]
          /\ sessions[r] # NoSession =>
                /\ sessions' = sessions
                /\ nalloc' = nalloc
                /\ heap'[sessions[r]] =
                      [heap[sessions[r]] EXCEPT !.last_accessed = now[t]]
                /\ \A o \in ObjIds \ {sessions[r]} : heap'[o] = heap[o]
      ]_vars

\* Two start requests for round r1 with different course ids have both come
\* out of get_or_create: one session was constructed, both hold it, and it
\* carries the course id of the call that constructed it.
C6_Witness ==
    /\ \A t \in Threads :
          /\ pc[t] = "update"
          /\ op[t].kind = "start"
          /\ session[t] = sessions["r1"]
    /\ op["t1"].course_id # op["t2"].course_id
    /\ nalloc = 1
    /\ sessions["r1"] = 1
    /\ heap[1].created_at = heap[1].last_accessed

\* C7: end removes the entry of its round id and answers with the session
\* that was stored; on an id with no entry it answers "not found" and leaves
\* the map as it is; no other id's entry and no session is touched; and
\* after it the id has no entry until a session start creates it again.
C7_EndRemovesUntilCreatedAgain ==
    [][/\ \A t \in Threads, r \in RoundIds : End(t, r) =>
            /\ sessions'[r] = NoSession
            /\ \A q \in RoundIds \ {r} : sessions'[q] = sessions[q]
            /\ heap' = heap
            /\ sessions[r] # NoSession => resp'[t] = "end:ended"
            /\ sessions[r] = NoSession =>
                  (resp'[t] = "end:not_found" /\ sessions' = sessions)
       /\ \A r \in RoundIds : Inserts(r) => StartStep(r)
      ]_vars

\* C8: a request for an unknown or expired round id is answered "not found"
\* and creates nothing: get returns nothing, record-shot, session-recommend
\* and session-voice answer 404, session-status and session-end answer
\* not_found, weather and course-intel cache nothing; the map has no entry
\* for the id afterwards, and only a session start gives it one again.
C8_NotFoundNeverCreates ==
    [][/\ \A t \in Threads, k \in LookupKinds, r \in RoundIds :
            ( /\ Get(t, k, r)
              /\ \/ sessions[r] = NoSession
                 \/ clock - heap[sessions[r]].last_accessed > 8 * 60 * 60 )
            => /\ session'[t] = NoSession
               /\ pc'[t] = "done"
               /\ k = "status" => resp'[t] = "status:not_found"
               /\ k = "shot" => resp'[t] = "shot:404"
               /\ k = "recommend" => resp'[t] = "recommend:404"
               /\ k = "voice" => resp'[t] = "voice:404"
               /\ k = "weather" => resp'[t] = "weather:ok"
               /\ k = "intel" => resp'[t] = "intel:ok"
               /\ sessions'[r] = NoSession
               /\ heap' = heap
               /\ nalloc' = nalloc
       /\ \A t \in Threads, r \in RoundIds :
            (End(t, r) /\ sessions[r] = NoSession)
            => (resp'[t] = "end:not_found" /\ sessions'[r] = NoSession)
       /\ \A r \in RoundIds :
            (AnsweredNotFound(r) /\ sessions[r] = NoSession /\ ~StartStep(r))
            => sessions'[r] = NoSession
      ]_vars

\* C9: needs_weather_refresh is true exactly when the session has no cached
\* weather or more than 30 minutes have passed since weather_fetched_at; it
\* is false right after the weather or course-intel endpoint has cached
\* weather; and from false it becomes true only by the clock passing 30
\* minutes beyond an unchanged weather_fetched_at.
C9_WeatherRefresh ==
    [][/\ \A o \in Allocated :
            needs_weather_refresh(clock, heap[o])
              <=> \/ heap[o].weather = None
                  \/ clock - heap[o].weather_fetched_at > 30 * 60
       /\ \A t \in Threads :
            Fields(t) =>
                /\ heap'[session[t]].weather # None
                /\ heap'[session[t]].weather_fetched_at = clock'
                /\ ~needs_weather_refresh(clock', heap'[session[t]])
       /\ \A o \in Allocated :
            ( /\ ~needs_weather_refresh(clock, heap[o])
              /\ needs_weather_refresh(clock', heap'[o]) )
            => /\ heap'[o].weather # None
               /\ heap'[o].weather_fetched_at = heap[o].weather_fetched_at
               /\ clock < clock'
               /\ clock' - heap[o].weather_fetched_at > 30 * 60
               /\ clock - heap[o].weather_fetched_at <= 30 * 60
      ]_vars

\* Weather was cached in the session of round r1, stayed fresh for exactly 30
\* minutes, and is stale one minute later.
C9_Witness ==
    /\ sessions["r1"] # NoSession
    /\ heap[sessions["r1"]].weather # None
    /\ clock - heap[sessions["r1"]].weather_fetched_at = 30 * 60 + 60
    /\ needs_weather_refresh(clock, heap[sessions["r1"]])
    /\ ~needs_weather_refresh(clock - 60, heap[sessions["r1"]])

\* The yards of a list of adjustments, summed.
RECURSIVE SumYards(_)
SumYards(adjustments) ==
    IF adjustments = <<>>
    THEN 0
    ELSE Head(adjustments).yards + SumYards(Tail(adjustments))

\* C10: compute_adjustments returns max(1, raw distance + the sum of the
\* yards of exactly the adjustments it lists), and never less than 1.
C10_AdjustedIsRawPlusListed ==
    result # NoResult =>
        /\ result.adjusted =
              Max(1, call.raw_distance + SumYards(result.adjustments))
        /\ result.adjusted >= 1

\* A call with several adjustments listed whose sum takes the distance below
\* 1 yard: it returned 1.
C10_Witness ==
    /\ result # NoResult
    /\ Len(result.adjustments) >= 2
    /\ call.raw_distance + SumYards(result.adjustments) < 1
    /\ result.adjusted = 1

\* The five factors of compute_adjustments, in the order of the code.
Factors == <<"elevation", "wind", "temperature", "altitude", "conditions">>

\* One factor of compute_adjustments applied to the list and total so far;
\* the four weather factors are skipped when there is no weather.
ApplyFactor(f, acc, c) ==
    CASE f = "elevation" -> ElevationStep(acc, c.elevation_change_ft)
      [] f = "wind" ->
            IF c.weather # NoWeather
            THEN WindStep(acc, c.raw_distance, c.weather, c.shot_bearing)
            ELSE acc
      [] f = "temperature" ->
            IF c.weather # NoWeather THEN TemperatureStep(acc, c.weather) ELSE acc
      [] f = "altitude" ->
            IF c.weather # NoWeather
            THEN AltitudeStep(acc, c.raw_distance, c.weather)
            ELSE acc
      [] f = "conditions" ->
            IF c.weather # NoWeather
            THEN ConditionsStep(acc, c.raw_distance, c.weather)
            ELSE acc

\* The calls the orders of the factors are tried on: distances of 1, 150 and
\* 250 yards, downhill, level and uphill, without weather and with weather
\* whose every field is either neutral or adjusts the distance.
OrderCalls ==
    { c \in AdjustmentCalls :
        /\ c.raw_distance \in {1, 150, 250}
        /\ c.elevation_change_ft \in {-60, -3, 0, 15}
        /\ c.shot_bearing = 0
        /\ c.weather # NoWeather =>
              /\ c.weather.temperature_f \in {30, 70, 100}
              /\ c.weather.wind_speed_mph \in {2, 10}
              /\ c.weather.altitude_ft \in {0, 5280} }

InitOrder ==
    /\ InitStore
    /\ call \in OrderCalls
    /\ result = NoResult

SpecOrder == InitOrder /\ [][NextAdjustments]_vars

\* The first n factors of the order applied one after the other.
RECURSIVE ApplyInOrder(_, _, _)
ApplyInOrder(order, n, c) ==
    IF n = 0
    THEN NoAdjustments
    ELSE ApplyFactor(Factors[order[n]], ApplyInOrder(order, n - 1, c), c)

\* The adjustments of a list, as a set.
Listed(adjustments) == { adjustments[i] : i \in DOMAIN adjustments }

\* C11: the five factors applied in any of their 120 orders give the total
\* delta, the adjusted distance and the adjustments that compute_adjustments
\* returns: no factor reads the running total.
C11_OrderIndependent ==
    result # NoResult =>
        \A order \in Permutations(1 .. 5) :
            LET permuted == ApplyInOrder(order, 5, call) IN
            /\ permuted.total_adj = SumYards(result.adjustments)
            /\ Max(1, call.raw_distance + permuted.total_adj) = result.adjusted
            /\ Listed(permuted.adjustments) = Listed(result.adjustments)

\* A call on which all five factors adjust the distance, upwards and
\* downwards.
C11_Witness ==
    /\ result # NoResult
    /\ Len(result.adjustments) = 5
    /\ \E i, j \in 1 .. 5 :
          result.adjustments[i].yards > 0 /\ result.adjustments[j].yards < 0
    /\ result.adjusted # call.raw_distance

\* The adjustments of one type in a list.
OfType(adjustments, type) ==
    SelectSeq(adjustments, LAMBDA a : a.type = type)

\* The headwind component, mph, of the wind of a call: positive into the
\* player, negative from behind.
HeadwindOf(c) ==
    c.weather.wind_speed_mph * Cos(c.weather.wind_direction - c.shot_bearing)

\* What the claim has the wind add to the distance.
WindYards(c) ==
    IF c.weather = NoWeather \/ c.weather.wind_speed_mph < 3
    THEN 0
    ELSE IF HeadwindOf(c) > 0
    THEN Round(c.raw_distance * HeadwindOf(c), 100)
    ELSE -Round(c.raw_distance * Abs(HeadwindOf(c)), 200)

\* C12: wind is applied only from 3 mph up; a headwind h adds
\* round(raw * 0.01 * h) yards and a tailwind subtracts
\* round(raw * 0.005 * |h|), 10 mph of pure headwind at 150 yards adding 15;
\* the lateral estimate of the wind computation never enters the total: the
\* total is the other factors' yards plus the headwind or tailwind yards, and
\* a pure crosswind leaves the distance where calm air leaves it.
C12_WindAdjustment ==
    result # NoResult =>
        LET wind == OfType(result.adjustments, "wind")
            others == SelectSeq(result.adjustments, LAMBDA a : a.type # "wind")
        IN  /\ Len(wind) <= 1
            /\ Len(wind) = 1 =>
                  /\ call.weather # NoWeather
                  /\ call.weather.wind_speed_mph >= 3
            /\ SumYards(wind) = WindYards(call)
            /\ WindYards(call) # 0 => Len(wind) = 1
            /\ SumYards(result.adjustments) = SumYards(others) + WindYards(call)
            /\ ( /\ call.weather # NoWeather
                 /\ call.weather.wind_speed_mph = 10
                 /\ call.weather.wind_direction = call.shot_bearing
                 /\ call.raw_distance = 150 )
               => (Len(wind) = 1 /\ wind[1].yards = 15)
            /\ (call.weather # NoWeather /\ HeadwindOf(call) = 0) =>
                  /\ Len(wind) = 0
                  /\ result =
                        compute_adjustments(
                            call.raw_distance, call.elevation_change_ft,
                            [call.weather EXCEPT !.wind_speed_mph = 0],
                            call.shot_bearing)

\* 10 mph straight into the player at 150 yards: the wind adds 15 yards.
C12_Witness ==
    /\ result # NoResult
    /\ call.raw_distance = 150
    /\ call.weather # NoWeather
    /\ call.weather.wind_speed_mph = 10
    /\ HeadwindOf(call) = 10
    /\ OfType(result.adjustments, "wind") = <<ShotAdjustment("wind", 15)>>

\* The items of a dict, as a set.
Items(d) == { d[i] : i \in DOMAIN d }

\* C13: select_club returns the club of greatest carry among those whose
\* carry is at most target + shift + 8, the shift being +5 for conservative,
\* -5 for aggressive and 0 for moderate; the shortest club of the table when
\* no club qualifies; and always an item of the table it used.
C13_SelectClub ==
    result # NoResult =>
        LET table == Items(TableUsed(call.club_distances))
            shift == CASE call.bias = "conservative" -> 5
                       [] call.bias = "aggressive" -> -5
                       [] call.bias = "moderate" -> 0
            qualifying == { c \in table : c[2] <= call.target_yards + shift + 8 }
            best == result.best_club
        IN  /\ best \in table
            /\ qualifying # {} =>
                  /\ best \in qualifying
                  /\ \A c \in qualifying : c[2] <= best[2]
            /\ qualifying = {} => \A c \in table : best[2] <= c[2]

\* A conservative call on a table of three clubs in no order of carry, two
\* of which qualify: the longer of the two is returned, and it is neither
\* the longest nor the first of the table.
C13_Witness ==
    /\ result # NoResult
    /\ call.bias = "conservative"
    /\ call.target_yards = 147
    /\ call.club_distances = << <<"pw", 100>>, <<"driver", 250>>, <<"7iron", 160>> >>
    /\ result.best_club = <<"7iron", 160>>

\* The carry select_club returns for the call's table and target under a
\* bias.
CarryUnder(bias) ==
    select_club(call.target_yards, call.club_distances, bias)[2]

\* C14: for a table and a target, the carry selected with bias aggressive is
\* at most the carry selected with moderate, which is at most the carry
\* selected with conservative, the fallback to the shortest club included.
C14_BiasMonotonic ==
    call.fn = "select_club" =>
        /\ CarryUnder("aggressive") <= CarryUnder("moderate")
        /\ CarryUnder("moderate") <= CarryUnder("conservative")

\* A call has returned on a table where the three biases select three
\* different clubs, and one where aggressive falls back to the shortest club
\* while conservative finds a club within reach.
C14_Witness ==
    /\ result # NoResult
    /\ \/ /\ CarryUnder("aggressive") < CarryUnder("moderate")
          /\ CarryUnder("moderate") < CarryUnder("conservative")
       \/ /\ \A c \in Items(call.club_distances) : c[2] > call.target_yards + 3
          /\ \E c \in Items(call.club_distances) : c[2] <= call.target_yards + 13
          /\ Len(call.club_distances) >= 2
          /\ CarryUnder("aggressive") < CarryUnder("conservative")

\* The keys of the canonical set: those the key map leaves alone.
Canonical(d) ==
    \A i \in DOMAIN d : ProfileKey(d[i][1]) = d[i][1] /\ ~Dropped(d[i][2])

\* C15: normalize_club_distances returns a canonical mapping as it is, a
\* second normalization changes nothing of the result of the first, and no
\* entry of the result has a zero, negative or missing distance: the result
\* holds, for each key, the positive distance of the last entry of the
\* profile that names the key in either format.
C15_NormalizeIdempotent ==
    (result # NoResult /\ result.fn = "normalize_club_distances") =>
        LET m == call.raw
            once == result.result
            kept == { i \in DOMAIN m : m[i][2] # <<>> /\ m[i][2][1] > 0 }
            key(i) == IF m[i][1] = "threeWood" THEN "3wood" ELSE m[i][1]
        IN  /\ normalize_club_distances(once) = once
            /\ Canonical(m) => once = m
            /\ \A e \in Items(once) : e[2] # <<>> /\ e[2][1] > 0
            /\ Keys(once) = { key(i) : i \in kept }
            /\ \A e \in Items(once) :
                  \E i \in kept :
                      /\ key(i) = e[1]
                      /\ m[i][2] = e[2]
                      /\ \A j \in kept : key(j) = e[1] => j <= i

\* A profile naming the 3 wood in both formats, the external one last, and a
\* club with no distance: one entry comes back, under the canonical key,
\* with the later distance.
C15_Witness ==
    /\ result # NoResult
    /\ call.fn = "normalize_club_distances"
    /\ call.raw = << <<"3wood", <<210>> >>, <<"driver", <<0>> >>,
                    <<"threeWood", <<230>> >> >>
    /\ result.result = << <<"3wood", <<230>> >> >>

\* The club select_club is to find in the built-in table: the longest club
\* of carry at most the limit, the shortest club when there is none.
DefaultClubFor(limit) ==
    LET table == Items(DEFAULT_CLUB_DISTANCES)
        within == { c \in table : c[2] <= limit }
    IN  IF within # {}
        THEN (CHOOSE c \in within : \A x \in within : x[2] <= c[2])[1]
        ELSE (CHOOSE c \in table : \A x \in table : c[2] <= x[2])[1]

\* C16: with an empty profile, or one of which normalization keeps nothing,
\* the recommendation is made all the same, on the built-in table: the club
\* is a key of that table, the one the selection rule gives for the
\* adjusted distance.
C16_EmptyProfileUsesDefaults ==
    ( /\ result # NoResult
      /\ result.fn = "generate_recommendation"
      /\ \A e \in Items(call.club_distances) : e[2] = <<>> \/ e[2][1] <= 0 )
    => /\ result.club \in Keys(DEFAULT_CLUB_DISTANCES)
       /\ result.club =
             DefaultClubFor(result.target_yards + 8
                            + (IF 100 * call.distance_yards >= 85 * call.hole.yards
                               THEN 0 ELSE 5))

\* A profile with entries, none of them with a positive distance, and a
\* shot of 1 yard: the shortest club of the built-in table is recommended.
C16_Witness ==
    /\ result # NoResult
    /\ call.fn = "generate_recommendation"
    /\ Len(call.club_distances) = 3
    /\ normalize_club_distances(call.club_distances) = <<>>
    /\ call.distance_yards = 1
    /\ result.club = "lw"

\* C17: the handicap multiplier is 1.00 at handicap 0, at least 1.0
\* everywhere, never smaller at a higher handicap, and outside [0, 36] what
\* it is at the nearer end; so the expected strokes of a call are never more
\* than those of the same distance and lie at a higher handicap.
C17_MultiplierMonotonic ==
    (result # NoResult /\ result.fn = "expected_strokes") =>
        /\ handicap_multiplier(<<0>>) = 100 * 30
        /\ \A h \in -5 .. 45 :
              /\ handicap_multiplier(<<h>>) >= 100 * 30
              /\ handicap_multiplier(<<h>>) <= handicap_multiplier(<<h + 1>>)
              /\ h < 0 => handicap_multiplier(<<h>>) = handicap_multiplier(<<0>>)
              /\ h > 36 => handicap_multiplier(<<h>>) = handicap_multiplier(<<36>>)
        /\ \A h \in -5 .. 45 :
              (call.handicap # <<>> /\ h >= call.handicap[1]) =>
                  expected_strokes(call.distance_yards, call.lie, <<h>>)
                      >= result.value

\* Expected strokes from 155 yards in the fairway at handicap 18: more than
\* at handicap 5, fewer than at handicap 33, and the same at 36 as at 40.
C17_Witness ==
    /\ result # NoResult
    /\ call.fn = "expected_strokes"
    /\ call.distance_yards = 155
    /\ call.lie = "fairway"
    /\ call.handicap = <<18>>
    /\ expected_strokes(155, "fairway", <<5>>) < result.value
    /\ result.value < expected_strokes(155, "fairway", <<33>>)
    /\ expected_strokes(155, "fairway", <<36>>)
          = expected_strokes(155, "fairway", <<40>>)

\* C18: strokes_gained returns expected(before) - expected(after) -
\* strokes_taken, and expected(after) is 0 whenever the end lie is "hole",
\* whatever the end distance: a shot that holes out gains
\* expected(before) - strokes_taken.
C18_HoledOutGainsExpectedBefore ==
    (result # NoResult /\ result.fn = "strokes_gained") =>
        LET before == expected_strokes(call.start_distance, call.start_lie,
                                       call.handicap)
            after == IF call.end_lie = "hole"
                     THEN 0
                     ELSE expected_strokes(call.end_distance, call.end_lie,
                                           call.handicap)
        IN  /\ result.value = before - after - call.strokes_taken * OneStroke
            /\ call.end_lie = "hole" =>
                  result.value = before - call.strokes_taken * OneStroke

\* The hazards of the call that satisfy a test, by their places in the list.
HazardsWhere(Test(_)) == { i \in DOMAIN call.hazards : Test(call.hazards[i]) }

\* C19: the pin is red exactly when at least 2 hazards of severity severe or
\* death lie within 10 yards of the green; yellow exactly when one does, or
\* none does and some hazard, at any distance, is of severity death; green
\* otherwise, as with no hazards at all.
C19_PinLight ==
    (result # NoResult /\ result.fn = "classify_pin_position") =>
        LET close == Cardinality(HazardsWhere(
                        LAMBDA h : /\ h.penalty_severity \in {"severe", "death"}
                                   /\ h.distance_from_green <= 10))
            deaths == Cardinality(HazardsWhere(
                        LAMBDA h : h.penalty_severity = "death"))
        IN  /\ result.light = "red" <=> close >= 2
            /\ result.light = "yellow" <=>
                  (close = 1 \/ (close = 0 /\ deaths >= 1))
            /\ result.light = "green" <=> (close = 0 /\ deaths = 0)
            /\ call.hazards = <<>> => result.light = "green"

\* Two severe hazards, one at 10 yards and one at 20, and a death hazard at
\* 25: one close severe hazard, and the pin is yellow.
C19_Witness ==
    /\ result # NoResult
    /\ call.fn = "classify_pin_position"
    /\ call.hazards = << Hazard("right", 10, "severe"),
                        Hazard("right", 20, "severe"),
                        Hazard("right", 25, "death") >>
    /\ result.light = "yellow"

\* The danger of a side of the call: the worst severity among its hazards
\* within 20 yards, 0 when there is none.
Danger(side) ==
    LET on == HazardsWhere(LAMBDA h : h.side = side /\ h.distance_from_green <= 20)
    IN  IF \E i \in on : call.hazards[i].penalty_severity = "death" THEN 5
        ELSE IF \E i \in on : call.hazards[i].penalty_severity = "severe" THEN 3
        ELSE IF \E i \in on : call.hazards[i].penalty_severity = "moderate" THEN 2
        ELSE IF \E i \in on : call.hazards[i].penalty_severity = "mild" THEN 1
        ELSE 0

\* The danger of the side rejected on the left/right axis, and on the
\* short/long axis: the more dangerous of the two sides.
RejectedLeftRight == Max(Danger("left"), Danger("right"))

RejectedShortLong == Max(Danger("front"), Danger("back"))

\* C20, as stated: the left/right recommendation is returned only if the
\* danger of the rejected short/long side strictly exceeds the danger of the
\* rejected left/right side; otherwise the short/long one is returned.
C20_MissSideAsStated ==
    (result # NoResult /\ result.fn = "compute_miss_side") =>
        /\ result.miss_side.preferred \in {"left", "right"}
              => RejectedShortLong > RejectedLeftRight
        /\ ~(RejectedShortLong > RejectedLeftRight)
              => result.miss_side.preferred \in {"short", "long"}

\* C20, amended: each axis recommends its less dangerous side, left and
\* short on a tie; the left/right recommendation is returned exactly when
\* the danger of the rejected left/right side strictly exceeds the danger of
\* the rejected short/long side, and the short/long one otherwise; the side
\* to avoid is the one opposite.
C20_MissSide ==
    (result # NoResult /\ result.fn = "compute_miss_side") =>
        LET lr == IF Danger("left") <= Danger("right") THEN "left" ELSE "right"
            fb == IF Danger("front") <= Danger("back") THEN "short" ELSE "long"
            preferred == result.miss_side.preferred
        IN  /\ RejectedLeftRight > RejectedShortLong => preferred = lr
            /\ RejectedLeftRight <= RejectedShortLong => preferred = fb
            /\ preferred = "left" => result.miss_side.avoid = "right"
            /\ preferred = "right" => result.miss_side.avoid = "left"
            /\ preferred = "short" => result.miss_side.avoid = "long"
            /\ preferred = "long" => result.miss_side.avoid = "short"

\* Death on the right, a severe and a mild hazard at the back, all within 20
\* yards: the rejected right side is the more dangerous, and the miss goes
\* left.
C20_Witness ==
    /\ result # NoResult
    /\ call.fn = "compute_miss_side"
    /\ call.hazards = << Hazard("back", 20, "mild"),
                        Hazard("right", 20, "death"),
                        Hazard("back", 20, "severe") >>
    /\ RejectedLeftRight = 5
    /\ RejectedShortLong = 3
    /\ result.miss_side = [preferred |-> "left", avoid |-> "right"]

\* The sentences of the aim description of the recommendation.
AimSays(sentence) ==
    \E i \in DOMAIN result.aim_point.description :
        result.aim_point.description[i] = sentence

\* The hole of the call has a death-severity hazard on the side.
DeathOn(side) ==
    \E i \in DOMAIN call.hole.hazards :
        /\ call.hole.hazards[i].side = side
        /\ call.hole.hazards[i].penalty_severity = "death"

\* C21: the only hazard a death hazard on the left or right within 10 yards
\* of the green, and the player's miss direction that side: the pin is
\* yellow, the aim description has "between the pin and center", the miss
\* is preferred on the opposite side and the hazard's side is the one to
\* avoid.
C21_ScenarioA ==
    ( /\ result # NoResult
      /\ Len(call.hole.hazards) = 1
      /\ call.hole.hazards[1].penalty_severity = "death"
      /\ call.hole.hazards[1].side \in {"left", "right"}
      /\ call.hole.hazards[1].distance_from_green <= 10
      /\ call.player_stats # NoStats
      /\ call.player_stats.tendencies.miss_direction = call.hole.hazards[1].side )
    => LET side == call.hole.hazards[1].side
           opposite == IF side = "left" THEN "right" ELSE "left"
       IN  /\ classify_pin_position(call.hole.hazards) = "yellow"
           /\ AimSays("Aim between the pin and center of green")
           /\ result.miss_side.preferred = opposite
           /\ result.miss_side.avoid = side

\* Scenario A: water on the right, 5 yards from the green, of severity
\* death, and a player who misses right.
C21_Witness ==
    /\ result # NoResult
    /\ call.fn = "generate_recommendation"
    /\ call.hole.hazards = << Hazard("right", 5, "death") >>
    /\ call.player_stats # NoStats
    /\ call.player_stats.tendencies.miss_direction = "right"
    /\ result.miss_side = [preferred |-> "left", avoid |-> "right"]
    /\ AimSays("Favor the left side - penalty right")

\* C22: the confidence is min(0.95, 0.5 + 0.15 with weather + 0.10 with a
\* nonzero elevation change + 0.15 with more than 5 rounds analyzed + 0.10
\* with hazards); it lies in [0.5, 0.95]; and the call without its weather,
\* without its statistics, without its hazards or on level ground has no
\* higher confidence.
C22_Confidence ==
    (result # NoResult /\ result.fn = "generate_recommendation") =>
        LET sum == 50
                   + (IF call.weather # NoWeather THEN 15 ELSE 0)
                   + (IF call.hole.elevation_change_ft # 0 THEN 10 ELSE 0)
                   + (IF /\ call.player_stats # NoStats
                         /\ call.player_stats.rounds_analyzed > 5
                      THEN 15 ELSE 0)
                   + (IF Len(call.hole.hazards) > 0 THEN 10 ELSE 0)
        IN  /\ result.confidence = IF sum < 95 THEN sum ELSE 95
            /\ 50 <= result.confidence
            /\ result.confidence <= 95
            /\ Confidence(call.hole, NoWeather, call.player_stats)
                  <= result.confidence
            /\ Confidence(call.hole, call.weather, NoStats) <= result.confidence
            /\ Confidence([call.hole EXCEPT !.hazards = <<>>], call.weather,
                          call.player_stats) <= result.confidence
            /\ Confidence([call.hole EXCEPT !.elevation_change_ft = 0],
                          call.weather, call.player_stats) <= result.confidence

\* Weather, an uphill shot, 6 rounds analyzed and a hazard: the sum is 1.00
\* and the confidence 0.95.
C22_Witness ==
    /\ result # NoResult
    /\ call.fn = "generate_recommendation"
    /\ call.weather # NoWeather
    /\ call.hole.elevation_change_ft # 0
    /\ call.player_stats # NoStats
    /\ call.player_stats.rounds_analyzed = 6
    /\ Len(call.hole.hazards) = 1
    /\ result.confidence = 95

\* C26: when the aim description tells the player to favor the left (right)
\* side, no death hazard of the hole lies on the left (right) side.
C26_FavoredSideHasNoDeath ==
    (result # NoResult /\ result.fn = "generate_recommendation") =>
        /\ AimSays("Favor the left side - penalty right") => ~DeathOn("left")
        /\ AimSays("Favor the right side - penalty left") => ~DeathOn("right")

\* C27: when the aim description says to favor the left (right) side, the
\* miss-side guidance does not name left (right) as the side to avoid.  The
\* holes with a death hazard on the favored side are left out, so that the
\* property is asked only where the aim has shifted away from every death
\* hazard.
C27_AimAndMissSideAgree ==
    (result # NoResult /\ result.fn = "generate_recommendation") =>
        /\ (AimSays("Favor the left side - penalty right") /\ ~DeathOn("left"))
              => result.miss_side.avoid # "left"
        /\ (AimSays("Favor the right side - penalty left") /\ ~DeathOn("right"))
              => result.miss_side.avoid # "right"

\* The hazards that count for the miss side: on one of the four sides and
\* within 20 yards of the green.
Counted(hazards) ==
    SelectSeq(hazards,
              LAMBDA h : /\ h.side \in {"left", "right", "front", "back"}
                         /\ h.distance_from_green <= 20)

\* The danger of the side named by a miss side: short is the front, long
\* the back.
DangerOfMiss(miss) ==
    Danger(CASE miss = "short" -> "front" [] miss = "long" -> "back"
             [] OTHER -> miss)

\* C28: for a non-empty hazard list the side to avoid has the greatest
\* danger of left, right, front and back; the preferred side has no greater
\* danger than the avoided one; the hazards on "center" or farther than 20
\* yards change nothing; and with all four dangers 0 the result is
\* preferred short, avoid long.
C28_AvoidIsMostDangerous ==
    ( /\ result # NoResult
      /\ result.fn = "compute_miss_side"
      /\ call.hazards # <<>> ) =>
        /\ \A side \in {"left", "right", "front", "back"} :
              Danger(side) <= DangerOfMiss(result.miss_side.avoid)
        /\ DangerOfMiss(result.miss_side.preferred)
              <= DangerOfMiss(result.miss_side.avoid)
        /\ result.miss_side = compute_miss_side(Counted(call.hazards))
        /\ (\A side \in {"left", "right", "front", "back"} : Danger(side) = 0)
              => result.miss_side = [preferred |-> "short", avoid |-> "long"]

\* A death hazard on the left at 25 yards and one in the center at 20, and a
\* mild hazard at the back at 20: only the last counts, and long is the side
\* to avoid.
C28_Witness ==
    /\ result # NoResult
    /\ result.fn = "compute_miss_side"
    /\ \E i \in DOMAIN call.hazards : call.hazards[i] = Hazard("left", 25, "death")
    /\ \E i \in DOMAIN call.hazards : call.hazards[i] = Hazard("center", 20, "death")
    /\ \E i \in DOMAIN call.hazards : call.hazards[i] = Hazard("back", 20, "mild")
    /\ result.miss_side = [preferred |-> "short", avoid |-> "long"]

\* The place of a factor in the order of the list.
Rank(type) ==
    CASE type = "elevation" -> 1
      [] type = "wind" -> 2
      [] type = "temperature" -> 3
      [] type = "altitude" -> 4
      [] type = "conditions" -> 5
      [] OTHER -> 0

\* C25: the adjustment list has at most one entry per factor, in the order
\* elevation, wind, temperature, altitude, conditions; every entry has
\* nonzero yards; a temperature, altitude or conditions entry has at least 2
\* yards either way; with no weather the list holds only an elevation entry;
\* and an elevation entry is there only for more than 1 foot of elevation
\* change (elevation_change_ft is kept in half feet).
C25_AdjustmentList ==
    (result # NoResult /\ result.fn = "compute_adjustments") =>
        LET list == result.adjustments IN
        /\ \A i \in DOMAIN list : Rank(list[i].type) \in 1..5
        /\ \A i, j \in DOMAIN list :
              i < j => Rank(list[i].type) < Rank(list[j].type)
        /\ \A i \in DOMAIN list : list[i].yards # 0
        /\ \A i \in DOMAIN list :
              list[i].type \in {"temperature", "altitude", "conditions"}
                  => Abs(list[i].yards) >= 2
        /\ call.weather = NoWeather
              => \A i \in DOMAIN list : list[i].type = "elevation"
        /\ (\E i \in DOMAIN list : list[i].type = "elevation")
              => Abs(call.elevation_change_ft) > 2

\* A call that lists all five factors, each once and in the order.
C25_Witness ==
    /\ result # NoResult
    /\ result.fn = "compute_adjustments"
    /\ Len(result.adjustments) = 5
    /\ result.adjustments[1].type = "elevation"
    /\ result.adjustments[3].type = "temperature"
    /\ result.adjustments[5].type = "conditions"

\* C23: with no rounds, or no usable scores, the default profile is the one
\* of the tier (up to 5, up to 15, up to 25, above 25) of the supplied
\* handicap, 0 and the boundaries included, and of 15.0 only when no
\* handicap is supplied; handicap 22 gives the distribution of the tier up
\* to 25 and miss direction right.  The tiers are told apart by their share
\* of eagles: 1.0, 0.5, 0.2 and 0.0 percent.
C23_DefaultTierOfSuppliedHandicap ==
    ( /\ result # NoResult
      /\ result.fn = "analyze_player_stats"
      /\ result.rounds_analyzed = 0 ) =>
        LET h == IF call.handicap = <<>> THEN 150 ELSE call.handicap[1]
        IN  /\ result.scoring_distribution.eagles =
                  (IF h <= 50 THEN 10
                   ELSE IF h <= 150 THEN 5
                   ELSE IF h <= 250 THEN 2
                   ELSE 0)
            /\ call.handicap = <<220>> =>
                  /\ result.scoring_distribution =
                        [eagles |-> 2, birdies |-> 30, pars |-> 200,
                         bogeys |-> 350, doubles |-> 250, triples_plus |-> 168]
                  /\ result.tendencies.miss_direction = "right"

\* C24: with h the supplied handicap, or 15.0 when none is supplied, the
\* result has miss direction right and 58/42 when h > 10, and balanced and
\* 52/48 otherwise.  Asked here of the results worked out from rounds, which
\* the fallback profile has no part in.
C24_MissDirectionAndSplit ==
    ( /\ result # NoResult
      /\ result.fn = "analyze_player_stats"
      /\ result.rounds_analyzed > 0 ) =>
        LET h == IF call.handicap = <<>> THEN 150 ELSE call.handicap[1]
            t == result.tendencies
        IN  IF h > 100
            THEN /\ t.miss_direction = "right"
                 /\ t.miss_short_pct = 580
                 /\ t.miss_long_pct = 420
            ELSE /\ t.miss_direction = "balanced"
                 /\ t.miss_short_pct = 520
                 /\ t.miss_long_pct = 480

\* C29: update writes back only the session stored under its round id at
\* the time: when the map holds no session or another session under that
\* id, update leaves the map as it is; end leaves its round id without an
\* entry; and a round id without an entry gets one by a get_or_create of
\* that id and by nothing else.
C29_UpdateWritesBackOnlyTheStored ==
    [][/\ \A t \in Threads :
            ( /\ Update(t)
              /\ sessions[heap[session[t]].round_id] # session[t] )
            => sessions' = sessions
       /\ \A t \in Threads, r \in RoundIds : End(t, r) => sessions'[r] = NoSession
       /\ \A r \in RoundIds :
            Inserts(r) => \E t \in Threads : GetOrCreate(t) /\ op[t].round_id = r
      ]_vars

\* C30: every entry of the map is keyed by the round id of its session and
\* has created_at <= last_accessed; no step changes the created_at of a
\* session; and no step lowers the last_accessed of a session that stays in
\* the map under its id.
C30_StoreInvariants ==
    [][/\ \A r \in RoundIds : sessions'[r] # NoSession =>
            /\ heap'[sessions'[r]].round_id = r
            /\ heap'[sessions'[r]].created_at <= heap'[sessions'[r]].last_accessed
       /\ \A o \in Allocated : heap'[o].created_at = heap[o].created_at
       /\ \A r \in RoundIds :
            (sessions[r] # NoSession /\ sessions'[r] = sessions[r])
            => heap[sessions[r]].last_accessed <= heap'[sessions[r]].last_accessed
      ]_vars

=============================================================================
